---- MODULE Spec2Model ----
(***************************************************************************)
(* tsync.Queue (src/tsync/queue.go): a bounded multi-producer,            *)
(* multi-consumer queue built on two ticket counters per side.             *)
(*                                                                         *)
(* Every atomic load, store and add of the Go code is one step of the     *)
(* calling thread; the plain slot accesses q.items[slot] are steps of     *)
(* their own.  A spin loop whose condition still holds leaves the state   *)
(* unchanged, so a waiting thread is a thread whose next step is disabled *)
(* (or, in Pop's publish wait, a thread cycling through the drained       *)
(* check of the loop body).                                                *)
(***************************************************************************)
EXTENDS Integers, Sequences, FiniteSets, TLC

\* ---- bounds of the model ------------------------------------------------
NumThreads  == 3   \* goroutines using the queue
MaxCapacity == 2   \* NewQueue(capacity) with capacity in 1..MaxCapacity
MaxPush     == 2   \* Push calls admitted in a run
MaxReject   == 1   \* Push calls rejected in a run
MaxPop      == 3   \* Pop calls issued in a run
MaxClose    == 1   \* Close calls issued in a run
MaxReopen   == 1   \* Reopen calls issued in a run
NumWriters  == 2   \* TestConcurrency: writer goroutines (20 in the test)
NumSamples  == 2   \* TestConcurrency: items pushed by each writer (1000 in the test)
NumReaders  == 2   \* TestConcurrency: reader goroutines (10 in the test)
MaxKeys     == 3   \* Metrics: keys passed to one FetchAndReset call
MaxValue    == 2   \* Metrics: largest absolute value a metric is given
MaxRateSamples == 4  \* Metrics: largest numSamples and numMedianSamples of a rate
MaxLockKeys == 2   \* Metrics: keys passed to one FetchAndReset call in a concurrent run
MaxCalls    == 2   \* Metrics: calls each goroutine makes in a concurrent run
MaxReuse    == 2   \* Push calls (and Pop calls) made on a reopened queue
NumCalls    == 4   \* Push calls (and Pop calls) made on a queue that is never closed

Threads == 1..NumThreads

\* The empty interface value nil: the content of a fresh slot and the result
\* of a Pop that found the queue drained.  Items are <<tag, id>> pairs.
Nil == <<0, 0>>

VARIABLES
    capacity,   \* q.capacity
    items,      \* q.items, indexed 0..capacity-1
    write,      \* q.write:  [next, processing]
    read,       \* q.read:   [next, processing]
    locked,     \* *q.locked (0 or 1)
    pc,         \* per thread: position inside the running call
    ticket,     \* per thread: local ticket
    slot,       \* per thread: local slot
    item,       \* per thread: Push's argument / Pop's local item
    lw,         \* per thread: value of write.processing loaded by a drained check
    \* ---- history (not read by the queue's code) ----
    rejected,   \* Push calls that returned LockedError so far
    popCalls,   \* Pop calls issued so far
    closes,     \* Close calls issued so far
    reopens,    \* Reopen calls issued so far
    written,    \* written[t+1]: the item passed to the Push that got write ticket t
    popLog,     \* <<read ticket, item, late>> of every Pop that returned an item, in return order
    seen,       \* "drained" once IsDrained() returned true (reset by Reopen)
    quiet,      \* per thread: the running IsDrained call began with no admitted Push running
    late,       \* per thread: what `seen` was when the running Pop was called
    wasDrained, \* per observed thread: the queue was drained at some instant of the running Pop call
    \* ---- the calling program (test driver) ----
    todo,       \* per thread: what the thread's loop does next
    \* ---- Metrics (src/metric.go) ----
    store,      \* met.store: the value of every registered metric, by name
    rates,      \* met.rates: the rate registered under every rate name
    mcall,      \* per thread: the Metrics call it runs or ran last, with its locals
    storeGuard  \* met.storeGuard: the RWMutex guarding met.store

qvars == <<capacity, items, write, read, locked>>
lvars == <<pc, ticket, slot, item, lw>>
hvars == <<rejected, popCalls, closes, reopens, written, popLog, seen, quiet, late, wasDrained>>
mvars == <<store, rates, mcall, storeGuard>>
vars  == <<qvars, lvars, hvars, todo, mvars>>

\* newQueueAccess
newQueueAccess == [next |-> 0, processing |-> 0]

\* NewQueueWithPriority(capacity, priority)
NewQueueWithPriority(cap) ==
    /\ capacity = cap
    /\ items = [i \in 0..(cap - 1) |-> Nil]
    /\ read = newQueueAccess
    /\ write = newQueueAccess
    /\ locked = 0

\* A Push that passed the admission check and has not returned.
PushPcs == {"push_ticket", "push_overlap", "push_store", "push_turn", "push_done"}
\* A Pop that holds a read ticket.
PopTicketPcs == {"pop_wait", "pop_locked", "pop_swp", "pop_srp", "pop_load",
                 "pop_turn", "pop_done"}
PopPcs == {"pop_wp", "pop_rp", "pop_ticket"} \cup PopTicketPcs

PushRunning == \E p \in DOMAIN pc : pc[p] \in PushPcs

\* ---- Metrics: names and construction ------------------------------------

\* metric.go:31-47
MetricProcessStart == "ProcessStart"
MetricGoRoutines == "GoRoutines"
MetricGoVersion == "GoVersion"
MetricMemoryAllocated == "GoMemoryAllocated"
MetricMemoryNumObjects == "GoMemoryNumObjects"
MetricMemoryGCEnabled == "GoMemoryGCEnabled"

SystemMetrics ==
    {MetricProcessStart, MetricGoRoutines, MetricGoVersion,
     MetricMemoryAllocated, MetricMemoryNumObjects, MetricMemoryGCEnabled}

\* The names the callers use: two metrics of their own (TestFetchAndReset)
\* and one system metric.
UserMetrics == {"foo", "bar"}
KeyNames == UserMetrics \cup {MetricProcessStart}

\* ProcessStartTime.Unix() and the numeric Go version: some nonzero values.
ProcessStartTime == 1
GoVersionNumber == 1

\* make(map[string]...)
EmptyMap == [n \in {} |-> 0]

\* The call record of a goroutine that has not called Metrics yet.
NoCall ==
    [op |-> "none", pc |-> "idle", keys |-> <<>>, state |-> EmptyMap, err |-> FALSE,
     i |-> 0, value |-> 0]

\* new(sync.RWMutex): nobody holds the lock and nobody waits for it.
\* pending: a goroutine is blocked in Lock() until the readers have left.
NewRWMutex == [writer |-> FALSE, pending |-> FALSE, readers |-> 0]

\* Lock() returns at once only while nobody holds the lock.  RLock() returns
\* only while no writer holds the lock and none is blocked in Lock(): a
\* blocked Lock() keeps new readers out, also a goroutine that holds the read
\* lock already and calls RLock() again.
CanLock(guard) == ~guard.writer /\ ~guard.pending /\ guard.readers = 0
CanRLock(guard) == ~guard.writer /\ ~guard.pending

\* The goroutine started by `go metrics.rateSampler()`.
Sampler == 0

\* NewMetrics(): the six system metrics are registered, ProcessStart and
\* GoVersion are set, no rate exists, the sampler is started.
NewMetrics ==
    /\ store = [n \in SystemMetrics |->
                  IF n = MetricProcessStart THEN ProcessStartTime
                  ELSE IF n = MetricGoVersion THEN GoVersionNumber
                  ELSE 0]
    /\ rates = EmptyMap
    /\ mcall = [p \in Threads \cup {Sampler} |-> NoCall]
    /\ storeGuard = NewRWMutex

\* A fresh queue of some capacity shared by the goroutines T, none of them
\* inside a call; the Pop calls of the goroutines O are observed.
InitQueueObserving(T, O) ==
    /\ \E cap \in 1..MaxCapacity : NewQueueWithPriority(cap)
    /\ pc = [p \in T |-> "idle"]
    /\ ticket = [p \in T |-> 0]
    /\ slot = [p \in T |-> 0]
    /\ item = [p \in T |-> Nil]
    /\ lw = [p \in T |-> 0]
    /\ rejected = 0
    /\ popCalls = 0
    /\ closes = 0
    /\ reopens = 0
    /\ written = <<>>
    /\ popLog = <<>>
    /\ seen = "no"
    /\ quiet = [p \in T |-> FALSE]
    /\ late = [p \in T |-> "no"]
    /\ wasDrained = [p \in O |-> FALSE]

InitQueue(T) == InitQueueObserving(T, {})

Init ==
    /\ InitQueue(Threads)
    /\ NewMetrics
    /\ todo = [p \in Threads |-> <<"any", 0>>]

\* What the calling goroutine does after a call returned res.  A goroutine of
\* TestConcurrency loops: a writer pushes its samples, a reader alternates
\* IsDrained and Pop until IsDrained returns true, the test closes the queue
\* once.  A goroutine may also make a single Pop call ("pop1"), or keep the
\* result of the call it made ("call" name, then "got" name result).  Any
\* other goroutine ("any") is free to call whatever it likes next.  The
\* goroutine that reopens the queue for k further Push and Pop calls
\* ("reopen" k) notes how many Push and Pop calls had been made before
\* ("reuse" k pushes pops).  A
\* goroutine using Metrics makes a number of Add calls ("add") or of
\* FetchAndReset calls ("fetch") and keeps what it passed or got.  A
\* goroutine that only pushes ("producer") or only pops ("consumer") stays
\* what it is.
Continue(t, res) ==
    CASE t[1] = "push"  -> IF t[2] > 1 THEN <<"push", t[2] - 1>> ELSE <<"done", 0>>
      [] t[1] = "check" -> IF res THEN <<"done", 0>> ELSE <<"pop", 0>>
      [] t[1] = "pop"   -> <<"check", 0>>
      [] t[1] = "close" -> <<"done", 0>>
      [] t[1] = "pop1"  -> <<"done", 0>>
      [] t[1] = "call"  -> <<"got", t[2], res>>
      [] t[1] = "add"   -> IF t[2] > 1 THEN <<"add", t[2] - 1, Append(t[3], res)>>
                           ELSE <<"added", 0, Append(t[3], res)>>
      [] t[1] = "fetch" -> IF t[2] > 1 THEN <<"fetch", t[2] - 1, Append(t[3], res)>>
                           ELSE <<"fetched", 0, Append(t[3], res)>>
      [] t[1] = "reopen" -> <<"reuse", t[2], write.next, popCalls>>
      [] OTHER          -> t

\* A call returns res: the thread's locals go out of scope.
Return(p, res) ==
    /\ todo' = [todo EXCEPT ![p] = Continue(@, res)]
    /\ pc' = [pc EXCEPT ![p] = "idle"]
    /\ ticket' = [ticket EXCEPT ![p] = 0]
    /\ slot' = [slot EXCEPT ![p] = 0]
    /\ item' = [item EXCEPT ![p] = Nil]
    /\ lw' = [lw EXCEPT ![p] = 0]
    /\ quiet' = [quiet EXCEPT ![p] = FALSE]
    /\ late' = [late EXCEPT ![p] = "no"]

Goto(p, label) == pc' = [pc EXCEPT ![p] = label]

\* History of the observed goroutines' running Pop calls: whether the closed
\* flag was set with write.processing = read.processing at some instant since
\* the call began, the state this step leads to included.
Track ==
    wasDrained' =
        [q \in DOMAIN wasDrained |->
            /\ pc'[q] \in PopPcs
            /\ \/ wasDrained[q]
               \/ locked' = 1 /\ write'.processing = read'.processing]

\* Mutation of Overlapping: the wait condition compares with > instead of >=.
OverlappingOffByOne(t, processing) ==
    IF t < processing THEN TRUE ELSE t - processing > capacity

\* ticket - processing >= capacity in uint64 arithmetic: a ticket below
\* processing wraps around to a huge difference.
Overlapping(t, processing) ==
    IF t < processing THEN TRUE ELSE t - processing >= capacity

\* ---- Push ---------------------------------------------------------------

\* Mutation of PushCheckLocked: the admission check is missing.
PushNoCheckLocked(p, it) ==
    /\ pc[p] = "idle"
    /\ Goto(p, "push_ticket")
    /\ item' = [item EXCEPT ![p] = it]
    /\ UNCHANGED <<qvars, ticket, slot, lw, hvars>>
    /\ UNCHANGED todo
    /\ UNCHANGED mvars

\* queue.go:40-42  if atomic.LoadInt32(q.locked) == 1 { return LockedError }
PushCheckLocked(p, it) ==
    /\ pc[p] = "idle"
    /\ IF locked = 1
         THEN /\ rejected' = rejected + 1           \* returns LockedError
              /\ todo' = [todo EXCEPT ![p] = Continue(@, FALSE)]
              /\ UNCHANGED <<pc, item>>
         ELSE /\ Goto(p, "push_ticket")
              /\ item' = [item EXCEPT ![p] = it]
              /\ UNCHANGED <<rejected, todo>>
    /\ UNCHANGED <<qvars, ticket, slot, lw>>
    /\ UNCHANGED <<popCalls, closes, reopens, written, popLog, seen, quiet, late, wasDrained>>
    /\ UNCHANGED mvars

\* Mutation of PushAcquire: the ticket is loaded from write.next without the
\* atomic add.
PushAcquireLoad(p) ==
    /\ pc[p] = "push_ticket"
    /\ ticket' = [ticket EXCEPT ![p] = write.next]
    /\ slot' = [slot EXCEPT ![p] = write.next % capacity]
    /\ written' = Append(written, item[p])
    /\ Goto(p, "push_overlap")
    /\ UNCHANGED <<qvars, item, lw>>
    /\ UNCHANGED <<rejected, popCalls, closes, reopens, popLog, seen, quiet, late, wasDrained>>
    /\ UNCHANGED todo
    /\ UNCHANGED mvars

\* queue.go:45-47  ticket := atomic.AddUint64(q.write.next, 1) - 1; slot := ticket % capacity
PushAcquire(p) ==
    /\ pc[p] = "push_ticket"
    /\ write' = [write EXCEPT !.next = @ + 1]
    /\ ticket' = [ticket EXCEPT ![p] = write.next]
    /\ slot' = [slot EXCEPT ![p] = write.next % capacity]
    /\ written' = Append(written, item[p])
    /\ Goto(p, "push_overlap")
    /\ UNCHANGED <<capacity, items, read, locked, item, lw>>
    /\ UNCHANGED <<rejected, popCalls, closes, reopens, popLog, seen, quiet, late, wasDrained>>
    /\ UNCHANGED todo
    /\ UNCHANGED mvars

\* Mutation of PushWaitReads: a Push held back by a full queue gives up with
\* LockedError once the queue is closed.
PushWaitReadsUnlessClosed(p) ==
    /\ pc[p] = "push_overlap"
    /\ IF locked = 1 /\ Overlapping(ticket[p], read.processing)
         THEN /\ rejected' = rejected + 1
              /\ Return(p, FALSE)
         ELSE /\ ~Overlapping(ticket[p], read.processing)
              /\ Goto(p, "push_store")
              /\ UNCHANGED <<ticket, slot, item, lw, rejected, quiet, late, todo>>
    /\ UNCHANGED <<qvars, popCalls, closes, reopens, written, popLog, seen, wasDrained>>
    /\ UNCHANGED mvars

\* Mutation of PushWaitReads: the wait for pending reads is missing.
PushNoWaitReads(p) ==
    /\ pc[p] = "push_overlap"
    /\ Goto(p, "push_store")
    /\ UNCHANGED <<qvars, ticket, slot, item, lw, hvars>>
    /\ UNCHANGED todo
    /\ UNCHANGED mvars

\* Mutation of PushWaitReads: the wait looks at read.next, not read.processing.
PushWaitReadsNext(p) ==
    /\ pc[p] = "push_overlap"
    /\ ~Overlapping(ticket[p], read.next)
    /\ Goto(p, "push_store")
    /\ UNCHANGED <<qvars, ticket, slot, item, lw, hvars>>
    /\ UNCHANGED todo
    /\ UNCHANGED mvars

\* queue.go:50-52  for ticket-atomic.LoadUint64(q.read.processing) >= q.capacity { spin.Yield() }
PushWaitReads(p) ==
    /\ pc[p] = "push_overlap"
    /\ ~Overlapping(ticket[p], read.processing)
    /\ Goto(p, "push_store")
    /\ UNCHANGED <<qvars, ticket, slot, item, lw, hvars>>
    /\ UNCHANGED todo
    /\ UNCHANGED mvars

\* Mutation of PushStore: the item is not written to its slot.
PushStoreNothing(p) ==
    /\ pc[p] = "push_store"
    /\ Goto(p, "push_turn")
    /\ UNCHANGED <<qvars, ticket, slot, item, lw, hvars>>
    /\ UNCHANGED todo
    /\ UNCHANGED mvars

\* queue.go:54  q.items[slot] = item
PushStore(p) ==
    /\ pc[p] = "push_store"
    /\ items' = [items EXCEPT ![slot[p]] = item[p]]
    /\ Goto(p, "push_turn")
    /\ UNCHANGED <<capacity, write, read, locked, ticket, slot, item, lw, hvars>>
    /\ UNCHANGED todo
    /\ UNCHANGED mvars

\* Mutation of PushWaitWriters: the wait for earlier writers is missing.
PushNoWaitWriters(p) ==
    /\ pc[p] = "push_turn"
    /\ Goto(p, "push_done")
    /\ UNCHANGED <<qvars, ticket, slot, item, lw, hvars>>
    /\ UNCHANGED todo
    /\ UNCHANGED mvars

\* queue.go:57-59  for ticket != atomic.LoadUint64(q.write.processing) { spin.Yield() }
PushWaitWriters(p) ==
    /\ pc[p] = "push_turn"
    /\ ticket[p] = write.processing
    /\ Goto(p, "push_done")
    /\ UNCHANGED <<qvars, ticket, slot, item, lw, hvars>>
    /\ UNCHANGED todo
    /\ UNCHANGED mvars

\* Mutation of PushPublish: the Push returns without advancing write.processing.
PushPublishNoAdvance(p) ==
    /\ pc[p] = "push_done"
    /\ Return(p, TRUE)
    /\ UNCHANGED <<qvars, rejected, popCalls, closes, reopens, written, popLog, seen, wasDrained>>
    /\ UNCHANGED mvars

\* queue.go:60-61  atomic.AddUint64(q.write.processing, 1); return nil
PushPublish(p) ==
    /\ pc[p] = "push_done"
    /\ write' = [write EXCEPT !.processing = @ + 1]
    /\ Return(p, TRUE)
    /\ UNCHANGED <<capacity, items, read, locked>>
    /\ UNCHANGED <<rejected, popCalls, closes, reopens, written, popLog, seen>>
    /\ UNCHANGED mvars
    /\ Track

\* ---- Pop ----------------------------------------------------------------

\* queue.go:68  if atomic.LoadInt32(q.locked) == 1 && ...   (&& short-circuits)
PopCheckLocked(p) ==
    /\ pc[p] = "idle"
    /\ popCalls' = popCalls + 1
    /\ late' = [late EXCEPT ![p] = seen]
    /\ Goto(p, IF locked = 1 THEN "pop_wp" ELSE "pop_ticket")
    /\ UNCHANGED <<qvars, ticket, slot, item, lw>>
    /\ UNCHANGED <<rejected, closes, reopens, written, popLog, seen, quiet>>
    /\ UNCHANGED todo
    /\ UNCHANGED mvars
    /\ Track

\* queue.go:69  atomic.LoadUint64(q.write.processing) == ...   (left operand)
PopCheckWrite(p) ==
    /\ pc[p] = "pop_wp"
    /\ lw' = [lw EXCEPT ![p] = write.processing]
    /\ Goto(p, "pop_rp")
    /\ UNCHANGED <<qvars, ticket, slot, item, hvars>>
    /\ UNCHANGED todo
    /\ UNCHANGED mvars

\* Mutation of PopCheckRead: the entry check never takes the early return.
PopCheckReadNoReturn(p) ==
    /\ pc[p] = "pop_rp"
    /\ Goto(p, "pop_ticket")
    /\ lw' = [lw EXCEPT ![p] = 0]
    /\ UNCHANGED <<qvars, ticket, slot, item, hvars>>
    /\ UNCHANGED todo
    /\ UNCHANGED mvars

\* queue.go:69-71  ... == atomic.LoadUint64(q.read.processing) { return nil }
PopCheckRead(p) ==
    /\ pc[p] = "pop_rp"
    /\ IF lw[p] = read.processing
         THEN Return(p, Nil)                          \* closed and no items
         ELSE /\ Goto(p, "pop_ticket")
              /\ lw' = [lw EXCEPT ![p] = 0]
              /\ UNCHANGED <<ticket, slot, item, quiet, late, todo>>
    /\ UNCHANGED <<qvars, rejected, popCalls, closes, reopens, written, popLog, seen>>
    /\ UNCHANGED mvars
    /\ Track

\* queue.go:74-76  ticket := atomic.AddUint64(q.read.next, 1) - 1; slot := ticket % capacity
PopAcquire(p) ==
    /\ pc[p] = "pop_ticket"
    /\ read' = [read EXCEPT !.next = @ + 1]
    /\ ticket' = [ticket EXCEPT ![p] = read.next]
    /\ slot' = [slot EXCEPT ![p] = read.next % capacity]
    /\ Goto(p, "pop_wait")
    /\ UNCHANGED <<capacity, items, write, locked, item, lw, hvars>>
    /\ UNCHANGED todo
    /\ UNCHANGED mvars

\* Mutation of PopWaitWritten: the slot is read without waiting for its write.
PopNoWaitWritten(p) ==
    /\ pc[p] = "pop_wait"
    /\ Goto(p, "pop_load")
    /\ UNCHANGED <<qvars, ticket, slot, item, lw, hvars>>
    /\ UNCHANGED todo
    /\ UNCHANGED mvars

\* queue.go:79  for ticket >= atomic.LoadUint64(q.write.processing) { spin.Yield(); ...
PopWaitWritten(p) ==
    /\ pc[p] = "pop_wait"
    /\ Goto(p, IF ticket[p] >= write.processing THEN "pop_locked" ELSE "pop_load")
    /\ UNCHANGED <<qvars, ticket, slot, item, lw, hvars>>
    /\ UNCHANGED todo
    /\ UNCHANGED mvars

\* Mutation of PopSpinLocked: the drained check in the loop forgets the flag.
PopSpinIgnoreLocked(p) ==
    /\ pc[p] = "pop_locked"
    /\ Goto(p, "pop_swp")
    /\ UNCHANGED <<qvars, ticket, slot, item, lw, hvars>>
    /\ UNCHANGED todo
    /\ UNCHANGED mvars

\* queue.go:82  if atomic.LoadInt32(q.locked) == 1 && ...
PopSpinLocked(p) ==
    /\ pc[p] = "pop_locked"
    /\ Goto(p, IF locked = 1 THEN "pop_swp" ELSE "pop_wait")
    /\ UNCHANGED <<qvars, ticket, slot, item, lw, hvars>>
    /\ UNCHANGED todo
    /\ UNCHANGED mvars

\* queue.go:83  atomic.LoadUint64(q.write.processing) == ...   (left operand)
PopSpinWrite(p) ==
    /\ pc[p] = "pop_swp"
    /\ lw' = [lw EXCEPT ![p] = write.processing]
    /\ Goto(p, "pop_srp")
    /\ UNCHANGED <<qvars, ticket, slot, item, hvars>>
    /\ UNCHANGED todo
    /\ UNCHANGED mvars

\* Mutation of PopSpinRead: the waiting Pop does not give up on a drained queue.
PopSpinReadNoReturn(p) ==
    /\ pc[p] = "pop_srp"
    /\ Goto(p, "pop_wait")
    /\ lw' = [lw EXCEPT ![p] = 0]
    /\ UNCHANGED <<qvars, ticket, slot, item, hvars, todo>>
    /\ UNCHANGED mvars

\* queue.go:83-85  ... == atomic.LoadUint64(q.read.processing) { return nil }
PopSpinRead(p) ==
    /\ pc[p] = "pop_srp"
    /\ IF lw[p] = read.processing
         THEN Return(p, Nil)                          \* closed while spinning
         ELSE /\ Goto(p, "pop_wait")
              /\ lw' = [lw EXCEPT ![p] = 0]
              /\ UNCHANGED <<ticket, slot, item, quiet, late, todo>>
    /\ UNCHANGED <<qvars, rejected, popCalls, closes, reopens, written, popLog, seen>>
    /\ UNCHANGED mvars
    /\ Track

\* queue.go:88  item := q.items[slot]
PopLoad(p) ==
    /\ pc[p] = "pop_load"
    /\ item' = [item EXCEPT ![p] = items[slot[p]]]
    /\ Goto(p, "pop_turn")
    /\ UNCHANGED <<qvars, ticket, slot, lw, hvars>>
    /\ UNCHANGED todo
    /\ UNCHANGED mvars

\* Mutation of PopWaitReaders: the wait for earlier readers is missing.
PopNoWaitReaders(p) ==
    /\ pc[p] = "pop_turn"
    /\ Goto(p, "pop_done")
    /\ UNCHANGED <<qvars, ticket, slot, item, lw, hvars>>
    /\ UNCHANGED todo
    /\ UNCHANGED mvars

\* queue.go:91-93  for ticket != atomic.LoadUint64(q.read.processing) { spin.Yield() }
PopWaitReaders(p) ==
    /\ pc[p] = "pop_turn"
    /\ ticket[p] = read.processing
    /\ Goto(p, "pop_done")
    /\ UNCHANGED <<qvars, ticket, slot, item, lw, hvars>>
    /\ UNCHANGED todo
    /\ UNCHANGED mvars

\* queue.go:94-95  atomic.AddUint64(q.read.processing, 1); return item
PopRetire(p) ==
    /\ pc[p] = "pop_done"
    /\ read' = [read EXCEPT !.processing = @ + 1]
    /\ popLog' = Append(popLog, <<ticket[p], item[p], late[p]>>)
    /\ Return(p, item[p])
    /\ UNCHANGED <<capacity, items, write, locked>>
    /\ UNCHANGED <<rejected, popCalls, closes, reopens, written, seen>>
    /\ UNCHANGED mvars
    /\ Track

\* ---- Close / Reopen -----------------------------------------------------

\* Mutation of Close: closing also drops what is still queued.
CloseDiscarding(p) ==
    /\ pc[p] = "idle"
    /\ closes' = closes + 1
    /\ locked' = 1
    /\ todo' = [todo EXCEPT ![p] = Continue(@, TRUE)]
    /\ read' = [read EXCEPT !.processing = write.processing]
    /\ UNCHANGED <<capacity, items, write, lvars>>
    /\ UNCHANGED <<rejected, popCalls, reopens, written, popLog, seen, quiet, late>>
    /\ UNCHANGED mvars
    /\ Track

\* queue.go:100-102  atomic.StoreInt32(q.locked, 1)
Close(p) ==
    /\ pc[p] = "idle"
    /\ closes' = closes + 1
    /\ locked' = 1
    /\ todo' = [todo EXCEPT ![p] = Continue(@, TRUE)]
    /\ UNCHANGED <<capacity, items, write, read, lvars>>
    /\ UNCHANGED <<rejected, popCalls, reopens, written, popLog, seen, quiet, late>>
    /\ UNCHANGED mvars
    /\ Track

\* Mutation of Reopen: reopening also resets the ticket counters.
ReopenResetting(p) ==
    /\ pc[p] = "idle"
    /\ reopens' = reopens + 1
    /\ locked' = 0
    /\ read' = newQueueAccess
    /\ write' = newQueueAccess
    /\ todo' = [todo EXCEPT ![p] = Continue(@, TRUE)]
    /\ seen' = "no"
    /\ quiet' = [q \in DOMAIN pc |-> FALSE]
    /\ late' = [q \in DOMAIN pc |-> "no"]
    /\ UNCHANGED <<capacity, items, lvars>>
    /\ UNCHANGED <<rejected, popCalls, closes, written, popLog>>
    /\ UNCHANGED mvars
    /\ Track

\* queue.go:105-107  atomic.StoreInt32(q.locked, 0)
Reopen(p) ==
    /\ pc[p] = "idle"
    /\ reopens' = reopens + 1
    /\ locked' = 0
    /\ todo' = [todo EXCEPT ![p] = Continue(@, TRUE)]
    /\ seen' = "no"
    /\ quiet' = [q \in DOMAIN pc |-> FALSE]
    /\ late' = [q \in DOMAIN pc |-> "no"]
    /\ UNCHANGED <<capacity, items, write, read, lvars>>
    /\ UNCHANGED <<rejected, popCalls, closes, written, popLog>>
    /\ UNCHANGED mvars
    /\ Track

\* ---- conditions on one state of the queue ----------------------------------

\* The flag IsClosed loads (queue.go:111) is set.
IsClosed == locked = 1

\* Every published item has been retired: the two counters IsEmpty compares
\* (queue.go:118) are equal in this state.  A running IsEmpty call loads the
\* counters one after the other (IsEmptyWrite, IsEmptyRead) and may return
\* true though the queue is in no state Empty while the call runs.
Empty == write.processing = read.processing

\* The queue is closed and empty.  A running IsDrained call takes three loads
\* (IsDrainedClosed, IsDrainedWrite, IsDrainedRead).
Drained == IsClosed /\ Empty

\* ---- IsClosed / IsEmpty ---------------------------------------------------

\* queue.go:110-112  return atomic.LoadInt32(q.locked) == 1
IsClosedLoad(p) ==
    /\ pc[p] = "idle"
    /\ todo' = [todo EXCEPT ![p] = Continue(@, locked = 1)]
    /\ UNCHANGED <<qvars, lvars, hvars>>
    /\ UNCHANGED mvars

\* queue.go:118  atomic.LoadUint64(q.write.processing) == ...   (left operand)
IsEmptyWrite(p) ==
    /\ pc[p] = "idle"
    /\ lw' = [lw EXCEPT ![p] = write.processing]
    /\ Goto(p, "ise_rp")
    /\ UNCHANGED <<qvars, ticket, slot, item, hvars>>
    /\ UNCHANGED todo
    /\ UNCHANGED mvars

\* queue.go:118  ... == atomic.LoadUint64(q.read.processing)
IsEmptyRead(p) ==
    /\ pc[p] = "ise_rp"
    /\ Return(p, lw[p] = read.processing)
    /\ UNCHANGED <<qvars, rejected, popCalls, closes, reopens, written, popLog, seen, wasDrained>>
    /\ UNCHANGED mvars

\* ---- IsDrained ----------------------------------------------------------

\* Mutation of IsDrainedClosed: IsClosed() || IsEmpty().
IsDrainedClosedOr(p) ==
    /\ pc[p] = "idle"
    /\ IF locked = 0
         THEN /\ Goto(p, "isd_wp")
              /\ quiet' = [quiet EXCEPT ![p] = ~PushRunning]
              /\ UNCHANGED todo
         ELSE /\ todo' = [todo EXCEPT ![p] = Continue(@, TRUE)]
              /\ UNCHANGED <<pc, quiet>>
    /\ UNCHANGED <<qvars, ticket, slot, item, lw>>
    /\ UNCHANGED <<rejected, popCalls, closes, reopens, written, popLog, seen, late, wasDrained>>
    /\ UNCHANGED mvars

\* queue.go:122-123, 110-112  q.IsClosed() && ...   (&& short-circuits)
IsDrainedClosed(p) ==
    /\ pc[p] = "idle"
    /\ IF locked = 1
         THEN /\ Goto(p, "isd_wp")
              /\ quiet' = [quiet EXCEPT ![p] = ~PushRunning]
              /\ UNCHANGED todo
         ELSE /\ todo' = [todo EXCEPT ![p] = Continue(@, FALSE)]   \* returns false
              /\ UNCHANGED <<pc, quiet>>
    /\ UNCHANGED <<qvars, ticket, slot, item, lw>>
    /\ UNCHANGED <<rejected, popCalls, closes, reopens, written, popLog, seen, late, wasDrained>>
    /\ UNCHANGED mvars

\* queue.go:118  atomic.LoadUint64(q.write.processing) == ...   (left operand)
IsDrainedWrite(p) ==
    /\ pc[p] = "isd_wp"
    /\ lw' = [lw EXCEPT ![p] = write.processing]
    /\ Goto(p, "isd_rp")
    /\ UNCHANGED <<qvars, ticket, slot, item, hvars>>
    /\ UNCHANGED todo
    /\ UNCHANGED mvars

\* Mutation of IsDrainedRead: the comparison uses read.next.
IsDrainedReadNext(p) ==
    /\ pc[p] = "isd_rp"
    /\ seen' = IF lw[p] = read.next
                 THEN (IF quiet[p] THEN "quiet" ELSE IF seen = "quiet" THEN seen ELSE "drained")
                 ELSE seen
    /\ Return(p, lw[p] = read.next)
    /\ UNCHANGED <<qvars, rejected, popCalls, closes, reopens, written, popLog, wasDrained>>
    /\ UNCHANGED mvars

\* queue.go:118  ... == atomic.LoadUint64(q.read.processing)
IsDrainedRead(p) ==
    /\ pc[p] = "isd_rp"
    /\ seen' = IF lw[p] = read.processing
                 THEN (IF quiet[p] THEN "quiet" ELSE IF seen = "quiet" THEN seen ELSE "drained")
                 ELSE seen
    /\ Return(p, lw[p] = read.processing)
    /\ UNCHANGED <<qvars, rejected, popCalls, closes, reopens, written, popLog, wasDrained>>
    /\ UNCHANGED mvars

\* Push calls admitted so far.
Admitted == write.next + Cardinality({p \in DOMAIN pc : pc[p] = "push_ticket"})

\* ---- the queue's users -----------------------------------------------------

\* A goroutine calls Push or Pop.
CallStep(p) ==
    \/ /\ IF locked = 1 THEN rejected < MaxReject ELSE Admitted < MaxPush
       /\ PushCheckLocked(p, <<p, Admitted + 1>>)
    \/ popCalls < MaxPop /\ PopCheckLocked(p)

\* The next step of goroutine p's running Push or Pop call.
RunStep(p) ==
    \/ PushAcquire(p)
    \/ PushWaitReads(p)
    \/ PushStore(p)
    \/ PushWaitWriters(p)
    \/ PushPublish(p)
    \/ PopCheckWrite(p)
    \/ PopCheckRead(p)
    \/ PopAcquire(p)
    \/ PopWaitWritten(p)
    \/ PopSpinLocked(p)
    \/ PopSpinWrite(p)
    \/ PopSpinRead(p)
    \/ PopLoad(p)
    \/ PopWaitReaders(p)
    \/ PopRetire(p)

\* The next step of goroutine p's running IsDrained call.
IsDrainedStep(p) ==
    \/ IsDrainedWrite(p)
    \/ IsDrainedRead(p)

\* Any number of goroutines calling Push, Pop, Close and Reopen.
Next ==
    \E p \in Threads :
        \/ CallStep(p)
        \/ RunStep(p)
        \/ closes < MaxClose /\ Close(p)
        \/ reopens < MaxReopen /\ Reopen(p)

Spec == Init /\ [][Next]_vars

\* As Next, with room for a Close call on a queue that is already closed.
NextReopen ==
    \E p \in Threads :
        \/ CallStep(p)
        \/ RunStep(p)
        \/ closes < MaxClose + 1 /\ Close(p)
        \/ reopens < MaxReopen /\ Reopen(p)

SpecReopen == Init /\ [][NextReopen]_vars

\* The baseline use of the queue: Reopen is never called, and one of the
\* goroutines also polls IsDrained between its other calls.  IsDrained only
\* reads, so which goroutine polls makes no difference to the others.
NextDrain ==
    \E p \in Threads :
        \/ CallStep(p)
        \/ RunStep(p)
        \/ closes < MaxClose /\ Close(p)
        \/ p = 1 /\ IsDrainedClosed(p)
        \/ IsDrainedStep(p)

SpecDrain == Init /\ [][NextDrain]_vars

\* Goroutines calling Push, Pop and Close.
NextClose ==
    \E p \in Threads :
        \/ CallStep(p)
        \/ RunStep(p)
        \/ closes < MaxClose /\ Close(p)

\* Every goroutine inside a Push or Pop call is scheduled again and again.
FairSpec ==
    /\ Init /\ [][NextClose]_vars
    /\ \A p \in Threads : WF_vars(RunStep(p))

\* Goroutines calling Push, Pop and Close, every Pop call being made while
\* published items are waiting in the queue.
NextItems ==
    \E p \in Threads :
        \/ /\ IF locked = 1 THEN rejected < MaxReject ELSE Admitted < MaxPush
           /\ PushCheckLocked(p, <<p, Admitted + 1>>)
        \/ /\ popCalls < MaxPop
           /\ write.processing > read.processing
           /\ PopCheckLocked(p)
        \/ RunStep(p)
        \/ closes < MaxClose /\ Close(p)

SpecItems == Init /\ [][NextItems]_vars

\* ---- TestConcurrency ---------------------------------------------------------

\* Goroutine 0 is the test itself, then come the writers, then the readers.
Writers == 1..NumWriters
Readers == (NumWriters + 1)..(NumWriters + NumReaders)
TestThreads == {0} \cup Writers \cup Readers

\* writer.WaitFor returned with every writer finished.
WritersDone == \A w \in Writers : todo[w][1] = "done"

InitTest ==
    /\ InitQueue(TestThreads)
    /\ NewMetrics
    /\ todo = [p \in TestThreads |->
                 IF p \in Writers THEN <<"push", NumSamples>>
                 ELSE IF p \in Readers THEN <<"check", 0>>
                 ELSE <<"close", 0>>]

\* The next step of goroutine p of the test.
TestStep(p) ==
    \/ todo[p][1] = "push" /\ PushCheckLocked(p, <<p, Admitted + 1>>)
    \/ todo[p][1] = "check" /\ IsDrainedClosed(p)
    \/ todo[p][1] = "pop" /\ PopCheckLocked(p)
    \/ todo[p][1] = "close" /\ WritersDone /\ Close(p)
    \/ RunStep(p)
    \/ IsDrainedStep(p)

NextTest == \E p \in TestThreads : TestStep(p)

\* The Go scheduler runs every goroutine of the test again and again.
SpecTest ==
    /\ InitTest /\ [][NextTest]_vars
    /\ \A p \in TestThreads : WF_vars(TestStep(p))

TestDone == \A p \in TestThreads : todo[p][1] = "done" /\ pc[p] = "idle"

\* results[idx]: the number of items tagged idx that Pop calls returned.
Results(idx) == Cardinality({i \in 1..Len(popLog) : popLog[i][2][1] = idx})

\* The number of items tagged idx that were pushed with success.
Pushed(idx) ==
    Cardinality({k \in 1..Len(written) : written[k][1] = idx /\ k <= write.processing})

\* ---- Close while readers wait ------------------------------------------------

\* Readers each making one Pop call on the empty queue, one writer making one
\* Push call, and one goroutine that calls Close once every reader is waiting
\* for an item.
BlockedReaders == 1..(NumThreads - 1)
BlockedWriter == NumThreads
BlockedCloser == NumThreads + 1
BlockedThreads == BlockedReaders \cup {BlockedWriter, BlockedCloser}

\* Every reader holds a ticket nothing has been published for.
ReadersBlocked ==
    \A r \in BlockedReaders :
        pc[r] \in {"pop_wait", "pop_locked"} /\ ticket[r] >= write.processing

InitBlocked ==
    /\ InitQueue(BlockedThreads)
    /\ NewMetrics
    /\ todo = [p \in BlockedThreads |->
                 IF p \in BlockedReaders THEN <<"pop1", 0>>
                 ELSE IF p = BlockedWriter THEN <<"push", 1>>
                 ELSE <<"close", 0>>]

\* The next step of goroutine p.  The readers call Pop on the open queue, so
\* the entry check of Pop never gets past the flag.
BlockedStep(p) ==
    \/ todo[p][1] = "pop1" /\ PopCheckLocked(p)
    \/ todo[p][1] = "push" /\ PushCheckLocked(p, <<p, Admitted + 1>>)
    \/ todo[p][1] = "close" /\ ReadersBlocked /\ Close(p)
    \/ PushAcquire(p)
    \/ PushWaitReads(p)
    \/ PushStore(p)
    \/ PushWaitWriters(p)
    \/ PushPublish(p)
    \/ PopAcquire(p)
    \/ PopWaitWritten(p)
    \/ PopSpinLocked(p)
    \/ PopSpinWrite(p)
    \/ PopSpinRead(p)
    \/ PopLoad(p)
    \/ PopWaitReaders(p)
    \/ PopRetire(p)

NextBlocked == \E p \in BlockedThreads : BlockedStep(p)

\* The Go scheduler runs every goroutine again and again.
SpecBlocked ==
    /\ InitBlocked /\ [][NextBlocked]_vars
    /\ \A p \in BlockedThreads : WF_vars(BlockedStep(p))

\* ---- TestFunctionality: a sequential caller -----------------------------------

\* One goroutine makes one call after the other and keeps each result.
SeqCaller == 1
Queries == {"IsClosed", "IsEmpty", "IsDrained"}

InitSeq ==
    /\ InitQueue(Threads)
    /\ NewMetrics
    /\ todo = [p \in Threads |->
                 IF p = SeqCaller THEN <<"got", "NewQueue", TRUE>> ELSE <<"any", 0>>]

\* The caller moves on to its next call.
SeqChoose(p, name) ==
    /\ pc[p] = "idle"
    /\ todo[p][1] = "got"
    /\ todo' = [todo EXCEPT ![p] = <<"call", name>>]
    /\ UNCHANGED <<qvars, lvars, hvars>>
    /\ UNCHANGED mvars

Calling(p, name) == todo[p][1] = "call" /\ todo[p][2] = name

\* The next step of the caller.  No other goroutine runs, so a Pop waiting
\* for an item never finds the queue closed.
SeqStep(p) ==
    \/ /\ IF locked = 1 THEN rejected < MaxReject ELSE Admitted < MaxPush
       /\ SeqChoose(p, "Push")
    \/ popCalls < MaxPop /\ SeqChoose(p, "Pop")
    \/ closes < MaxClose + 1 /\ SeqChoose(p, "Close")
    \/ reopens < MaxReopen /\ SeqChoose(p, "Reopen")
    \/ \E name \in Queries : SeqChoose(p, name)
    \/ Calling(p, "Push") /\ PushCheckLocked(p, <<p, Admitted + 1>>)
    \/ Calling(p, "Pop") /\ PopCheckLocked(p)
    \/ Calling(p, "Close") /\ Close(p)
    \/ Calling(p, "Reopen") /\ Reopen(p)
    \/ Calling(p, "IsClosed") /\ IsClosedLoad(p)
    \/ Calling(p, "IsEmpty") /\ IsEmptyWrite(p)
    \/ Calling(p, "IsDrained") /\ IsDrainedClosed(p)
    \/ PushAcquire(p)
    \/ PushWaitReads(p)
    \/ PushStore(p)
    \/ PushWaitWriters(p)
    \/ PushPublish(p)
    \/ PopCheckWrite(p)
    \/ PopCheckRead(p)
    \/ PopAcquire(p)
    \/ PopWaitWritten(p)
    \/ PopSpinLocked(p)
    \/ PopLoad(p)
    \/ PopWaitReaders(p)
    \/ PopRetire(p)
    \/ IsEmptyRead(p)
    \/ IsDrainedWrite(p)
    \/ IsDrainedRead(p)

NextSeq == SeqStep(SeqCaller)

SpecSeq == InitSeq /\ [][NextSeq]_vars

\* ---- Metrics ------------------------------------------------------------------

\* A section under storeGuard.Lock() or rateGuard.Lock() excludes every other
\* access to the map it guards, and a section under RLock() holds one atomic
\* operation, so each section is one step; a call with two sections takes
\* two steps.  A call that finds the lock read-locked when it reaches
\* storeGuard.Lock() waits there (NewWait, ResetMetricsWait).

Returned(p, name, ks, st, e) ==
    mcall' = [mcall EXCEPT ![p] =
                 [op |-> name, pc |-> "idle", keys |-> ks, state |-> st, err |-> e,
                  i |-> 0, value |-> 0]]

\* metric.go:128-134  New: a metric that does not exist is created with value 0
New(p, name) ==
    /\ mcall[p].pc = "idle"
    /\ CanLock(storeGuard)
    /\ store' = IF name \in DOMAIN store THEN store ELSE (name :> 0) @@ store
    /\ Returned(p, "New", <<>>, EmptyMap, FALSE)
    /\ UNCHANGED <<rates, storeGuard, qvars, lvars, hvars, todo>>

\* metric.go:129  met.storeGuard.Lock() while readers hold the lock: the call
\* blocks, and from now on no RLock() returns
NewWait(p, name) ==
    /\ mcall[p].pc = "idle"
    /\ ~storeGuard.writer /\ ~storeGuard.pending /\ storeGuard.readers > 0
    /\ storeGuard' = [storeGuard EXCEPT !.pending = TRUE]
    /\ mcall' = [mcall EXCEPT ![p] =
                   [op |-> "New", pc |-> "new_lock", keys |-> <<name>>,
                    state |-> EmptyMap, err |-> FALSE, i |-> 0, value |-> 0]]
    /\ UNCHANGED <<store, rates, qvars, lvars, hvars, todo>>

\* metric.go:129-134  the readers have left: Lock() returns, the metric is
\* created, the lock is released
NewLocked(p) ==
    /\ mcall[p].pc = "new_lock"
    /\ storeGuard.readers = 0
    /\ LET name == mcall[p].keys[1]
       IN  store' = IF name \in DOMAIN store THEN store ELSE (name :> 0) @@ store
    /\ storeGuard' = [storeGuard EXCEPT !.pending = FALSE]
    /\ Returned(p, "New", <<>>, EmptyMap, FALSE)
    /\ UNCHANGED <<rates, qvars, lvars, hvars, todo>>

\* metric.go:173-177  Set.  The name of a metric that does not exist makes the
\* call panic on the nil pointer, so callers pass registered names.
Set(p, name, value) ==
    /\ mcall[p].pc = "idle"
    /\ CanRLock(storeGuard)
    /\ name \in DOMAIN store
    /\ store' = [store EXCEPT ![name] = value]
    /\ Returned(p, "Set", <<>>, EmptyMap, FALSE)
    /\ UNCHANGED <<rates, storeGuard, qvars, lvars, hvars, todo>>

\* metric.go:220-224  Add (Inc, Dec and Sub are Add of 1, -1 and -value)
Add(p, name, value) ==
    /\ mcall[p].pc = "idle"
    /\ CanRLock(storeGuard)
    /\ name \in DOMAIN store
    /\ store' = [store EXCEPT ![name] = @ + value]
    /\ Returned(p, "Add", <<>>, EmptyMap, FALSE)
    /\ UNCHANGED <<rates, storeGuard, qvars, lvars, hvars, todo>>

\* make(tcontainer.Int64Slice, numSamples)
NewSamples(numSamples) == [i \in 0..(numSamples - 1) |-> 0]

\* metric.go:145-151  NewRate: the base metric is looked up under
\* storeGuard.RLock() and the lock is released.  The call record keeps the
\* two names given and, while the call runs, numSamples (i) and
\* numMedianSamples (value).
NewRate(p, baseMetric, name, numSamples, numMedianSamples) ==
    /\ mcall[p].pc = "idle"
    /\ CanRLock(storeGuard)
    /\ IF baseMetric \notin DOMAIN store
         THEN Returned(p, "NewRate", <<baseMetric, name>>, EmptyMap, TRUE)    \* not registered
         ELSE mcall' = [mcall EXCEPT ![p] =
                          [op |-> "NewRate", pc |-> "nr_rates",
                           keys |-> <<baseMetric, name>>, state |-> EmptyMap,
                           err |-> FALSE, i |-> numSamples, value |-> numMedianSamples]]
    /\ UNCHANGED <<store, rates, storeGuard, qvars, lvars, hvars, todo>>

\* metric.go:153-170  the rate is looked up and stored under rateGuard.Lock()
NewRateRates(p) ==
    /\ mcall[p].pc = "nr_rates"
    /\ LET baseMetric == mcall[p].keys[1]
           name == mcall[p].keys[2]
       IN  IF name \notin DOMAIN rates                        \* metric.go:156  !exists
             THEN /\ Returned(p, "NewRate", <<baseMetric, name>>, EmptyMap, TRUE)    \* already registered
                  /\ UNCHANGED rates
             ELSE /\ rates' = [rates EXCEPT ![name] =
                                 [metric |-> baseMetric,
                                  samples |-> NewSamples(mcall[p].i),
                                  numMedians |-> mcall[p].value,
                                  lastSample |-> 0,
                                  value |-> 0,
                                  index |-> 0]]
                  /\ Returned(p, "NewRate", <<baseMetric, name>>, EmptyMap, FALSE)
    /\ UNCHANGED <<store, storeGuard, qvars, lvars, hvars, todo>>

\* metric.go:332-337  for _, key := range keys { if val, exists := met.store[key];
\* exists { state[key] = *val; *val = 0 } }, from the i-th key on: the pair of
\* the final state map and store.
RECURSIVE FetchLoop(_, _, _, _)
FetchLoop(keys, i, state, st) ==
    IF i > Len(keys) THEN <<state, st>>
    ELSE IF keys[i] \in DOMAIN st
      THEN FetchLoop(keys, i + 1, (keys[i] :> st[keys[i]]) @@ state,
                     [st EXCEPT ![keys[i]] = 0])
      ELSE FetchLoop(keys, i + 1, state, st)

\* metric.go:341-347  for _, key := range keys { if rate, exists :=
\* met.rates[key]; exists { rate.lastSample = 0; rate.value = 0;
\* rate.samples.Set(0) } }, from the i-th key on.
RECURSIVE ResetRateLoop(_, _, _)
ResetRateLoop(keys, i, rs) ==
    IF i > Len(keys) THEN rs
    ELSE IF keys[i] \in DOMAIN rs
      THEN ResetRateLoop(keys, i + 1,
              [rs EXCEPT ![keys[i]] =
                  [@ EXCEPT !.lastSample = 0, !.value = 0,
                            !.samples = [j \in DOMAIN @ |-> 0]]])
      ELSE ResetRateLoop(keys, i + 1, rs)

\* metric.go:328-338  FetchAndReset: state := make(map[string]int64), then the
\* loop over the store under storeGuard.Lock()
FetchAndReset(p, keys) ==
    /\ mcall[p].pc = "idle"
    /\ CanLock(storeGuard)
    /\ LET r == FetchLoop(keys, 1, EmptyMap, store)
       IN  /\ store' = r[2]
           /\ mcall' = [mcall EXCEPT ![p] =
                          [op |-> "FetchAndReset", pc |-> "far_rates", keys |-> keys,
                           state |-> r[1], err |-> FALSE, i |-> 0, value |-> 0]]
    /\ UNCHANGED <<rates, storeGuard, qvars, lvars, hvars, todo>>

\* metric.go:340-350  the loop over the rates under rateGuard.Lock(); return state
FetchAndResetRates(p) ==
    /\ mcall[p].pc = "far_rates"
    /\ rates' = ResetRateLoop(mcall[p].keys, 1, rates)
    /\ mcall' = [mcall EXCEPT ![p].pc = "idle"]
    /\ todo' = [todo EXCEPT ![p] = Continue(@, mcall[p].state)]
    /\ UNCHANGED <<store, storeGuard, qvars, lvars, hvars>>

\* metric.go:306-313  for key := range met.store { switch key { case
\* MetricProcessStart, MetricGoRoutines, MetricGoVersion: default:
\* *met.store[key] = 0 } }
ResetStore(st) ==
    [key \in DOMAIN st |->
        IF key \in {MetricProcessStart, MetricGoRoutines, MetricGoVersion}
          THEN st[key]
          ELSE 0]

\* metric.go:317-321  for _, rate := range met.rates { rate.lastSample = 0;
\* rate.value = 0; rate.samples.Set(0) }
ResetRates(rs) ==
    [name \in DOMAIN rs |->
        [rs[name] EXCEPT !.lastSample = 0, !.value = 0,
                         !.samples = [j \in DOMAIN @ |-> 0]]]

\* metric.go:304-314  ResetMetrics: the loop over the store under storeGuard.Lock()
ResetMetrics(p) ==
    /\ mcall[p].pc = "idle"
    /\ CanLock(storeGuard)
    /\ store' = ResetStore(store)
    /\ mcall' = [mcall EXCEPT ![p] =
                   [op |-> "ResetMetrics", pc |-> "rm_rates", keys |-> <<>>,
                    state |-> EmptyMap, err |-> FALSE, i |-> 0, value |-> 0]]
    /\ UNCHANGED <<rates, storeGuard, qvars, lvars, hvars, todo>>

\* metric.go:305  met.storeGuard.Lock() while readers hold the lock: the call
\* blocks, and from now on no RLock() returns
ResetMetricsWait(p) ==
    /\ mcall[p].pc = "idle"
    /\ ~storeGuard.writer /\ ~storeGuard.pending /\ storeGuard.readers > 0
    /\ storeGuard' = [storeGuard EXCEPT !.pending = TRUE]
    /\ mcall' = [mcall EXCEPT ![p] =
                   [op |-> "ResetMetrics", pc |-> "rm_lock", keys |-> <<>>,
                    state |-> EmptyMap, err |-> FALSE, i |-> 0, value |-> 0]]
    /\ UNCHANGED <<store, rates, qvars, lvars, hvars, todo>>

\* metric.go:305-314  the readers have left: Lock() returns, the loop over the
\* store runs, the lock is released
ResetMetricsLocked(p) ==
    /\ mcall[p].pc = "rm_lock"
    /\ storeGuard.readers = 0
    /\ store' = ResetStore(store)
    /\ storeGuard' = [storeGuard EXCEPT !.pending = FALSE]
    /\ mcall' = [mcall EXCEPT ![p].pc = "rm_rates"]
    /\ UNCHANGED <<rates, qvars, lvars, hvars, todo>>

\* metric.go:316-323  the loop over the rates under rateGuard.Lock(); return
ResetMetricsRates(p) ==
    /\ mcall[p].pc = "rm_rates"
    /\ rates' = ResetRates(rates)
    /\ mcall' = [mcall EXCEPT ![p].pc = "idle"]
    /\ UNCHANGED <<store, storeGuard, qvars, lvars, hvars, todo>>

\* The goroutine that makes the calls of a sequential run.
MetricsCaller == 1

\* ---- the sampler ---------------------------------------------------------------

\* total := int64(0); for _, v := range values { total += v }, from index i on
RECURSIVE Total(_, _)
Total(values, i) ==
    IF i \notin DOMAIN values THEN 0 ELSE values[i] + Total(values, i + 1)

\* Go's integer division a / b (b # 0) truncates towards zero.
Quotient(a, b) ==
    LET abs(x) == IF x < 0 THEN -x ELSE x
        q == abs(a) \div abs(b)
    IN  IF (a < 0) = (b < 0) THEN q ELSE -q

\* values.Sort(): the values in ascending order.
Sort(values) ==
    [k \in DOMAIN values |->
        CHOOSE v \in {values[j] : j \in DOMAIN values} :
            /\ Cardinality({j \in DOMAIN values : values[j] < v}) <= k
            /\ k < Cardinality({j \in DOMAIN values : values[j] <= v})]

\* The outcome of a computation that may panic.
Value(v) == [panic |-> FALSE, value |-> v]
Panic == [panic |-> TRUE, value |-> 0]

\* metric.go:399-405  case rate.numMedians == 1: the mean of all values
MeanOfAll(samples) == Quotient(Total(samples, 0), Cardinality(DOMAIN samples))

\* metric.go:407-412  case rate.numMedians == 0, rate.numMedians >=
\* len(rate.samples): the median of all values
MedianOfAll(samples) == Sort(samples)[Cardinality(DOMAIN samples) \div 2]

\* metric.go:414-432  default: the median of means.  blocks[i/blockSize] is
\* out of range when i/blockSize reaches numMedians, and the size a block sum
\* is divided by, len(blocks) - offset, may be zero: both panic.
MedianOfMeans(samples, numMedians) ==
    LET len == Cardinality(DOMAIN samples)
        blockSize == len \div numMedians
        blocks == [b \in 0..(numMedians - 1) |->
                     Total([i \in {j \in DOMAIN samples : j \div blockSize = b} |->
                               samples[i]], b * blockSize)]
        size(i) == IF i * blockSize + blockSize > numMedians
                     THEN numMedians - i * blockSize
                     ELSE blockSize
        values == [i \in 0..(numMedians - 1) |-> Quotient(blocks[i], size(i))]
    IN  IF \E i \in DOMAIN samples : i \div blockSize >= numMedians THEN Panic
        ELSE IF \E i \in 0..(numMedians - 1) : size(i) = 0 THEN Panic
        ELSE Value(Sort(values)[numMedians \div 2])

\* metric.go:398-433  switch { ... }: the new rate.value
RateValue(samples, numMedians) ==
    IF numMedians = 1 THEN Value(MeanOfAll(samples))
    ELSE IF numMedians = 0 \/ numMedians >= Cardinality(DOMAIN samples)
      THEN Value(MedianOfAll(samples))
      ELSE MedianOfMeans(samples, numMedians)

\* metric.go:391-395  the sample is stored: rate.index % len(rate.samples)
\* panics for a rate without samples
StoreSample(rate, sample) ==
    [rate EXCEPT !.samples[rate.index % Cardinality(DOMAIN rate.samples)] =
                     sample - rate.lastSample,
                 !.index = @ + 1,
                 !.lastSample = sample]

\* metric.go:390-434  the body of the loop over met.rates for one rate: the
\* rate afterwards, and whether the body panicked
UpdateRate(rate, snapshot) ==
    LET sample == IF rate.metric \in DOMAIN snapshot THEN snapshot[rate.metric] ELSE 0
    IN  IF DOMAIN rate.samples = {} THEN [panic |-> TRUE, rate |-> rate]
        ELSE LET stored == StoreSample(rate, sample)
                 new == RateValue(stored.samples, stored.numMedians)
             IN  IF new.panic THEN [panic |-> TRUE, rate |-> stored]
                 ELSE [panic |-> FALSE, rate |-> [stored EXCEPT !.value = new.value]]

\* The sampler goroutine step by step.  Per tick it runs updateSystemMetrics,
\* which keeps storeGuard read-locked while each of its four Set calls takes
\* the read lock again, and updateRates, which copies the store under the read
\* lock and then updates the rates under rateGuard.Lock().

\* metric.go:368-373, 354  a tick is received from met.ticker.C and
\* updateSystemMetrics is called: met.storeGuard.RLock()
rateSamplerTick ==
    /\ mcall[Sampler].pc = "idle"
    /\ CanRLock(storeGuard)
    /\ storeGuard' = [storeGuard EXCEPT !.readers = @ + 1]
    /\ mcall' = [mcall EXCEPT ![Sampler].op = "rateSampler",
                              ![Sampler].pc = "usm_set",
                              ![Sampler].i = 1]
    /\ UNCHANGED <<store, rates, qvars, lvars, hvars, todo>>

\* metric.go:360-363  the metrics updateSystemMetrics sets, in this order
SystemSets ==
    <<MetricGoRoutines, MetricMemoryAllocated, MetricMemoryGCEnabled,
      MetricMemoryNumObjects>>

\* metric.go:360-363, 173-177, 180-184, 194-203  the next of the calls
\* met.SetI(MetricGoRoutines, runtime.NumGoroutine()), met.Set(
\* MetricMemoryAllocated, int64(stats.Alloc)), met.SetB(MetricMemoryGCEnabled,
\* stats.EnableGC), met.Set(MetricMemoryNumObjects, int64(stats.HeapObjects))
\* while the sampler holds the read lock: RLock() once more, the atomic store
\* of the value, RUnlock().  What the runtime reports (metric.go:357-358,
\* 360) is any value, and SetB stores 1 or 0.
updateSystemMetricsSet ==
    /\ mcall[Sampler].pc = "usm_set"
    /\ mcall[Sampler].i <= Len(SystemSets)
    /\ CanRLock(storeGuard)
    /\ LET name == SystemSets[mcall[Sampler].i]
       IN  \E value \in IF name = MetricMemoryGCEnabled THEN {0, 1} ELSE 1..MaxValue :
              store' = [store EXCEPT ![name] = value]
    /\ mcall' = [mcall EXCEPT ![Sampler].i = @ + 1]
    /\ UNCHANGED <<rates, storeGuard, qvars, lvars, hvars, todo>>

\* metric.go:355  defer met.storeGuard.RUnlock(): updateSystemMetrics returns
updateSystemMetricsRUnlock ==
    /\ mcall[Sampler].pc = "usm_set"
    /\ mcall[Sampler].i > Len(SystemSets)
    /\ storeGuard' = [storeGuard EXCEPT !.readers = @ - 1]
    /\ mcall' = [mcall EXCEPT ![Sampler].pc = "ur_snapshot",
                              ![Sampler].i = 0]
    /\ UNCHANGED <<store, rates, qvars, lvars, hvars, todo>>

\* metric.go:380-385  updateRates: the snapshot of the store under
\* storeGuard.RLock().  The values are loaded one by one.  Of the snapshot
\* only the entries of the base metrics of the rates are read (metric.go:391),
\* so these are the entries kept, and with at most one of them the loads that
\* matter are one.
updateRatesSnapshot ==
    /\ mcall[Sampler].pc = "ur_snapshot"
    /\ CanRLock(storeGuard)
    /\ LET used == {rates[name].metric : name \in DOMAIN rates} \cap DOMAIN store
       IN  /\ Cardinality(used) <= 1
           /\ mcall' = [mcall EXCEPT ![Sampler].pc = "ur_rates",
                                     ![Sampler].state = [key \in used |-> store[key]]]
    /\ UNCHANGED <<store, rates, storeGuard, qvars, lvars, hvars, todo>>

\* metric.go:387-435  updateRates: every rate is updated from the snapshot
\* under rateGuard.Lock().  The map is ranged over in any order, so when the
\* body panics for a rate, any of the other rates may have been updated; the
\* panic ends the goroutine (and the process).
updateRates ==
    /\ mcall[Sampler].pc = "ur_rates"
    /\ LET snapshot == mcall[Sampler].state
           new == [name \in DOMAIN rates |-> UpdateRate(rates[name], snapshot)]
           bad == {name \in DOMAIN rates : new[name].panic}
       IN  IF bad = {}
             THEN /\ rates' = [name \in DOMAIN rates |-> new[name].rate]
                  /\ mcall' = [mcall EXCEPT ![Sampler].pc = "idle",
                                            ![Sampler].state = EmptyMap]
             ELSE /\ \E last \in bad, done \in SUBSET (DOMAIN rates \ bad) :
                        rates' = [name \in DOMAIN rates |->
                                    IF name = last \/ name \in done
                                      THEN new[name].rate
                                      ELSE rates[name]]
                  /\ mcall' = [mcall EXCEPT ![Sampler].pc = "panic",
                                            ![Sampler].state = EmptyMap,
                                            ![Sampler].err = TRUE]
    /\ UNCHANGED <<store, storeGuard, qvars, lvars, hvars, todo>>

\* metric.go:366-376  rateSampler: the next step of the sampler goroutine
rateSampler ==
    \/ rateSamplerTick
    \/ updateSystemMetricsSet
    \/ updateSystemMetricsRUnlock
    \/ updateRatesSnapshot
    \/ updateRates

\* A process that resets its metrics now and then: one goroutine registers
\* and sets metrics and calls ResetMetrics while the sampler ticks.
SystemStep(p) ==
    \/ \E name \in UserMetrics : New(p, name)
    \/ \E name \in UserMetrics : NewWait(p, name)
    \/ NewLocked(p)
    \/ \E name \in UserMetrics, value \in 1..MaxValue : Set(p, name, value)
    \/ ResetMetrics(p)
    \/ ResetMetricsWait(p)
    \/ ResetMetricsLocked(p)
    \/ ResetMetricsRates(p)

NextSystem ==
    \/ SystemStep(MetricsCaller)
    \/ rateSampler

SpecSystem == Init /\ [][NextSystem]_vars

\* A process that wants a rate: one goroutine registers metric foo, calls
\* NewRate for it and changes the metric while the sampler ticks.
RatesStep(p) ==
    \/ New(p, "foo")
    \/ NewWait(p, "foo")
    \/ NewLocked(p)
    \/ \E numSamples \in 0..MaxRateSamples, numMedianSamples \in 0..MaxRateSamples :
          NewRate(p, "foo", "rate", numSamples, numMedianSamples)
    \/ NewRateRates(p)
    \/ \E value \in {-1, 1} :
          /\ "foo" \in DOMAIN store
          /\ store["foo"] + value \in (-MaxValue)..MaxValue
          /\ Add(p, "foo", value)

NextRates ==
    \/ RatesStep(MetricsCaller)
    \/ rateSampler

SpecRates == Init /\ [][NextRates]_vars

\* ---- Metrics, lock by lock ------------------------------------------------------

\* The calls of Add and FetchAndReset step by step: taking the lock, every
\* access to a metric under it, and releasing it.  A goroutine inside Lock()
\* or RLock() waits until the lock can be taken.  None of these calls takes
\* the read lock while it holds it, so a goroutine waiting in Lock() only
\* delays the readers that come after it: an order in which the goroutines
\* get the lock anyway.

\* metric.go:220  Add(name, value) is called (Inc, Dec, Sub likewise)
AddCall(p, name, value) ==
    /\ mcall[p].pc = "idle"
    /\ name \in DOMAIN store
    /\ mcall' = [mcall EXCEPT ![p] =
                   [op |-> "Add", pc |-> "add_rlock", keys |-> <<name>>,
                    state |-> EmptyMap, err |-> FALSE, i |-> 0, value |-> value]]
    /\ UNCHANGED <<store, rates, storeGuard, qvars, lvars, hvars, todo>>

\* metric.go:221  met.storeGuard.RLock()
AddRLock(p) ==
    /\ mcall[p].pc = "add_rlock"
    /\ CanRLock(storeGuard)
    /\ storeGuard' = [storeGuard EXCEPT !.readers = @ + 1]
    /\ mcall' = [mcall EXCEPT ![p].pc = "add_atomic"]
    /\ UNCHANGED <<store, rates, qvars, lvars, hvars, todo>>

\* metric.go:223  atomic.AddInt64(met.store[name], value)
AddAtomic(p) ==
    /\ mcall[p].pc = "add_atomic"
    /\ store' = [store EXCEPT ![mcall[p].keys[1]] = @ + mcall[p].value]
    /\ mcall' = [mcall EXCEPT ![p].pc = "add_runlock"]
    /\ UNCHANGED <<rates, storeGuard, qvars, lvars, hvars, todo>>

\* metric.go:222  defer met.storeGuard.RUnlock(); the call returns
AddRUnlock(p) ==
    /\ mcall[p].pc = "add_runlock"
    /\ storeGuard' = [storeGuard EXCEPT !.readers = @ - 1]
    /\ mcall' = [mcall EXCEPT ![p].pc = "idle"]
    /\ todo' = [todo EXCEPT ![p] = Continue(@, mcall[p].value)]
    /\ UNCHANGED <<store, rates, qvars, lvars, hvars>>

\* metric.go:328-329  FetchAndReset(keys...) is called; state := make(map[string]int64)
FetchCall(p, keys) ==
    /\ mcall[p].pc = "idle"
    /\ mcall' = [mcall EXCEPT ![p] =
                   [op |-> "FetchAndReset", pc |-> "far_lock", keys |-> keys,
                    state |-> EmptyMap, err |-> FALSE, i |-> 1, value |-> 0]]
    /\ UNCHANGED <<store, rates, storeGuard, qvars, lvars, hvars, todo>>

\* metric.go:331  met.storeGuard.Lock()
FetchLock(p) ==
    /\ mcall[p].pc = "far_lock"
    /\ CanLock(storeGuard)
    /\ storeGuard' = [storeGuard EXCEPT !.writer = TRUE]
    /\ mcall' = [mcall EXCEPT ![p].pc = "far_key"]
    /\ UNCHANGED <<store, rates, qvars, lvars, hvars, todo>>

\* metric.go:332-334  for _, key := range keys { if val, exists :=
\* met.store[key]; exists { state[key] = *val
FetchKey(p) ==
    /\ mcall[p].pc = "far_key"
    /\ LET c == mcall[p]
       IN  mcall' = [mcall EXCEPT ![p] =
              IF c.i > Len(c.keys) THEN [c EXCEPT !.pc = "far_unlock"]
              ELSE IF c.keys[c.i] \in DOMAIN store
                THEN [c EXCEPT !.state = (c.keys[c.i] :> store[c.keys[c.i]]) @@ c.state,
                               !.pc = "far_zero"]
                ELSE [c EXCEPT !.i = @ + 1]]
    /\ UNCHANGED <<store, rates, storeGuard, qvars, lvars, hvars, todo>>

\* metric.go:335  *val = 0
FetchZero(p) ==
    /\ mcall[p].pc = "far_zero"
    /\ store' = [store EXCEPT ![mcall[p].keys[mcall[p].i]] = 0]
    /\ mcall' = [mcall EXCEPT ![p].i = @ + 1, ![p].pc = "far_key"]
    /\ UNCHANGED <<rates, storeGuard, qvars, lvars, hvars, todo>>

\* metric.go:338  met.storeGuard.Unlock()
FetchUnlock(p) ==
    /\ mcall[p].pc = "far_unlock"
    /\ storeGuard' = [storeGuard EXCEPT !.writer = FALSE]
    /\ mcall' = [mcall EXCEPT ![p].pc = "far_rates"]
    /\ UNCHANGED <<store, rates, qvars, lvars, hvars, todo>>

\* Goroutines that update the metric foo while others fetch and reset it:
\* each goroutine makes MaxCalls calls, either of Inc, Dec and Add or of
\* FetchAndReset.  The metric bar is not registered.
InitLocks ==
    /\ InitQueue(Threads)
    /\ store = [n \in SystemMetrics \cup {"foo"} |->
                  IF n = MetricProcessStart THEN ProcessStartTime
                  ELSE IF n = MetricGoVersion THEN GoVersionNumber
                  ELSE 0]
    /\ rates = EmptyMap
    /\ mcall = [p \in Threads \cup {Sampler} |-> NoCall]
    /\ storeGuard = NewRWMutex
    /\ \E fetchers \in SUBSET Threads :
          /\ fetchers # {} /\ fetchers # Threads
          /\ todo = [p \in Threads |->
                       IF p \in fetchers THEN <<"fetch", MaxCalls, <<>>>>
                       ELSE <<"add", MaxCalls, <<>>>>]

\* The lists of at most n names.
RECURSIVE KeyLists(_)
KeyLists(n) ==
    IF n = 0 THEN {<<>>}
    ELSE LET shorter == KeyLists(n - 1)
         IN  shorter \cup {Append(ks, k) : ks \in shorter, k \in KeyNames}

\* The key lists the fetching goroutines pass: any list of at most MaxLockKeys
\* of the names foo and bar that names foo, also twice.
LockKeyLists ==
    {keys \in KeyLists(MaxLockKeys) :
        /\ \A i \in 1..Len(keys) : keys[i] \in UserMetrics
        /\ \E i \in 1..Len(keys) : keys[i] = "foo"}

LocksStep(p) ==
    \/ \E value \in {-1, 1, 2} : todo[p][1] = "add" /\ AddCall(p, "foo", value)
    \/ AddRLock(p)
    \/ AddAtomic(p)
    \/ AddRUnlock(p)
    \/ \E keys \in LockKeyLists : todo[p][1] = "fetch" /\ FetchCall(p, keys)
    \/ FetchLock(p)
    \/ FetchKey(p)
    \/ FetchZero(p)
    \/ FetchUnlock(p)
    \/ FetchAndResetRates(p)

NextLocks == \E p \in Threads : LocksStep(p)

SpecLocks == InitLocks /\ [][NextLocks]_vars

\* TestFetchAndReset and the like: one goroutine registers metrics, sets and
\* changes them, and fetches them.
MetricsStep(p) ==
    \/ \E name \in UserMetrics : New(p, name)
    \/ \E name \in KeyNames, value \in 0..MaxValue : Set(p, name, value)
    \/ \E name \in KeyNames, value \in {-1, 1} :
          /\ name \in DOMAIN store
          /\ store[name] + value \in (-MaxValue)..MaxValue
          /\ Add(p, name, value)
    \/ \E baseMetric \in KeyNames, name \in {"rate"} : NewRate(p, baseMetric, name, 2, 0)
    \/ NewRateRates(p)
    \/ \E keys \in KeyLists(MaxKeys) : FetchAndReset(p, keys)
    \/ FetchAndResetRates(p)

NextMetrics == MetricsStep(MetricsCaller)

SpecMetrics == Init /\ [][NextMetrics]_vars

\* ---- history read-outs ------------------------------------------------------

AllIdle == \A p \in DOMAIN pc : pc[p] = "idle"

\* The items returned by Pop calls so far, and the items of admitted Push calls.
PoppedItems == {popLog[i][2] : i \in 1..Len(popLog)}
WrittenItems == {written[k] : k \in 1..Len(written)}

\* Pop calls that have returned nil.
EmptyPops == popCalls - Cardinality({p \in DOMAIN pc : pc[p] \in PopPcs}) - Len(popLog)

PushCritical == {"push_store", "push_turn", "push_done"}
PopCritical == {"pop_load", "pop_turn", "pop_done"}

\* ---- reuse of a reopened queue ------------------------------------------------

\* One goroutine reopens the queue once it has been closed and drained, a Pop
\* has returned nil and every call has returned; the others use the queue
\* before, and all of them make k Push and k Pop calls afterwards.
Reopener == 1

InitReuse ==
    /\ InitQueue(Threads)
    /\ NewMetrics
    /\ \E k \in 1..MaxReuse :
          todo = [p \in Threads |-> IF p = Reopener THEN <<"reopen", k>> ELSE <<"any", 0>>]

Reused == todo[Reopener][1] = "reuse"
ReuseCalls == todo[Reopener][2]
ReuseBase == todo[Reopener][3]
ReusePops == todo[Reopener][4]

\* The next step of goroutine p.
ReuseStep(p) ==
    \/ /\ todo[p][1] = "any" /\ ~Reused
       /\ CallStep(p)
    \/ /\ todo[p][1] = "any" /\ ~Reused
       /\ closes < MaxClose /\ Close(p)
    \/ /\ todo[p][1] = "reopen"
       /\ AllIdle /\ Drained /\ EmptyPops >= 1
       /\ Reopen(p)
    \/ /\ Reused /\ Admitted < ReuseBase + ReuseCalls
       /\ PushCheckLocked(p, <<p, Admitted + 1>>)
    \/ /\ Reused /\ popCalls < ReusePops + ReuseCalls
       /\ PopCheckLocked(p)
    \/ RunStep(p)

NextReuse == \E p \in Threads : ReuseStep(p)

\* The Go scheduler runs every goroutine again and again.
SpecReuse ==
    /\ InitReuse /\ [][NextReuse]_vars
    /\ \A p \in Threads : WF_vars(ReuseStep(p))

\* ---- Close while producers run -------------------------------------------------

\* Goroutines as in TestConcurrency (readers alternating IsDrained and Pop,
\* a writer pushing its samples, one Close), the queue being closed at any
\* time instead of after the writer has finished: the writer may be past the
\* admission check when Close is called, and is turned away afterwards.
InitDeliver ==
    /\ InitQueue(BlockedThreads)
    /\ NewMetrics
    /\ todo = [p \in BlockedThreads |->
                 IF p \in BlockedReaders THEN <<"check", 0>>
                 ELSE IF p = BlockedWriter THEN <<"push", NumSamples>>
                 ELSE <<"close", 0>>]

\* The next step of goroutine p.
DeliverStep(p) ==
    \/ todo[p][1] = "push" /\ PushCheckLocked(p, <<p, Admitted + 1>>)
    \/ todo[p][1] = "check" /\ IsDrainedClosed(p)
    \/ todo[p][1] = "pop" /\ PopCheckLocked(p)
    \/ todo[p][1] = "close" /\ Close(p)
    \/ RunStep(p)
    \/ IsDrainedStep(p)

NextDeliver == \E p \in BlockedThreads : DeliverStep(p)

\* The Go scheduler runs every goroutine again and again.
SpecDeliver ==
    /\ InitDeliver /\ [][NextDeliver]_vars
    /\ \A p \in BlockedThreads : WF_vars(DeliverStep(p))

\* ---- a queue that is never closed -----------------------------------------------

\* Some of the goroutines are producers, the others consumers, at least one
\* of each.
InitOpen ==
    /\ InitQueue(Threads)
    /\ NewMetrics
    /\ \E P \in (SUBSET Threads) \ {{}, Threads} :
          todo = [p \in Threads |->
                    IF p \in P THEN <<"producer", 0>> ELSE <<"consumer", 0>>]

\* The producers make NumCalls Push calls and the consumers NumCalls Pop
\* calls between them, in any order and with any overlap; Close is never
\* called, so the drained checks of Pop never get past the flag.
OpenStep(p) ==
    \/ /\ todo[p][1] = "producer" /\ Admitted < NumCalls
       /\ PushCheckLocked(p, <<p, Admitted + 1>>)
    \/ /\ todo[p][1] = "consumer" /\ popCalls < NumCalls
       /\ PopCheckLocked(p)
    \/ PushAcquire(p)
    \/ PushWaitReads(p)
    \/ PushStore(p)
    \/ PushWaitWriters(p)
    \/ PushPublish(p)
    \/ PopAcquire(p)
    \/ PopWaitWritten(p)
    \/ PopSpinLocked(p)
    \/ PopLoad(p)
    \/ PopWaitReaders(p)
    \/ PopRetire(p)

NextOpen == \E p \in Threads : OpenStep(p)

\* The Go scheduler runs every goroutine again and again.
SpecOpen ==
    /\ InitOpen /\ [][NextOpen]_vars
    /\ \A p \in Threads : WF_vars(OpenStep(p))

\* Every call has been made and has returned.
OpenDone ==
    /\ AllIdle
    /\ write.processing = NumCalls
    /\ Len(popLog) = NumCalls

\* Goroutine p can take a step that is not one more round of a wait loop:
\* it can make a call (while calls remain to be made), or its running call
\* can move on.
CanAdvance(p) ==
    CASE pc[p] = "idle" -> IF todo[p][1] = "producer" THEN Admitted < NumCalls
                           ELSE popCalls < NumCalls
      [] pc[p] = "push_overlap" -> ~Overlapping(ticket[p], read.processing)
      [] pc[p] = "push_turn" -> ticket[p] = write.processing
      [] pc[p] \in {"pop_wait", "pop_locked"} -> ticket[p] < write.processing
      [] pc[p] = "pop_turn" -> ticket[p] = read.processing
      [] OTHER -> TRUE

\* ---- Pop calls under observation -----------------------------------------------

\* As Init, with the history of every goroutine's Pop calls kept.
InitObserved ==
    /\ InitQueueObserving(Threads, Threads)
    /\ NewMetrics
    /\ todo = [p \in Threads |-> <<"any", 0>>]

\* Any number of goroutines calling Push, Pop, Close and Reopen.
SpecObserved == InitObserved /\ [][Next]_vars

\* ---- claims -----------------------------------------------------------------

\* C1: no loss, no duplication.  No item is returned by two Pop calls, every
\* item a Pop returns is the item of an admitted Push, and once the queue is
\* drained with no call running, as many Pops returned an item as Pushes
\* succeeded and the returned items are exactly the pushed items.
C1_NoLossNoDup ==
    /\ \A i, j \in 1..Len(popLog) : i # j => popLog[i][2] # popLog[j][2]
    /\ \A i \in 1..Len(popLog) : popLog[i][2] # Nil /\ popLog[i][2] \in WrittenItems
    /\ (AllIdle /\ Drained) =>
          /\ Len(popLog) = Len(written)
          /\ PoppedItems = WrittenItems

\* Two producers pushed one item each and the queue ended drained.
C1_Witness ==
    /\ AllIdle /\ Drained
    /\ Len(popLog) = 2
    /\ written[1][1] # written[2][1]

\* C2: global FIFO.  The i-th Pop to retire holds read ticket i-1 and returns
\* the item stored by the Push holding write ticket i-1, so items are retired
\* in the order of the producers' tickets.
C2_GlobalFIFO ==
    \A i \in 1..Len(popLog) :
        /\ popLog[i][1] = i - 1
        /\ i <= Len(written)
        /\ popLog[i][2] = written[i]

\* Two producers' items were delivered, the Push called second holding the
\* first ticket.
C2_Witness ==
    /\ Len(popLog) = 2
    /\ written[1][1] # written[2][1]
    /\ written[1][2] > written[2][2]

\* C3: bounded memory.  The number of published, unretired items never
\* exceeds the capacity.
C3_Bounded == write.processing - read.processing <= capacity

\* The queue is full and a further Push is held back by the overlap wait.
C3_Witness ==
    /\ write.processing - read.processing = capacity
    /\ \E p \in DOMAIN pc :
          pc[p] = "push_overlap" /\ Overlapping(ticket[p], read.processing)

\* C4: slot exclusivity.  No two Push calls are between their overlap wait and
\* their publish with the same slot, and no two Pop calls are between their
\* publish wait and their retire with the same slot.
C4_SlotExclusive ==
    \A p, q \in DOMAIN pc :
        p # q =>
          /\ ~(pc[p] \in PushCritical /\ pc[q] \in PushCritical /\ slot[p] = slot[q])
          /\ ~(pc[p] \in PopCritical /\ pc[q] \in PopCritical /\ slot[p] = slot[q])

\* A Push is inside the region on a slot while the Push holding the next
\* ticket of the same slot is held back by the overlap wait.
C4_Witness ==
    \E p, q \in DOMAIN pc :
        /\ p # q
        /\ pc[p] \in PushCritical
        /\ pc[q] = "push_overlap" /\ Overlapping(ticket[q], read.processing)
        /\ slot[p] = slot[q]

\* C5: backpressure.  A Push whose ticket overlaps a published, unretired
\* item (ticket - read.processing >= capacity) has neither stored its item nor
\* returned; once read.processing has advanced far enough, the Push goes on to
\* publish its item.
C5_Backpressure ==
    /\ [](\A p \in DOMAIN pc :
            pc[p] \in PushCritical => ~Overlapping(ticket[p], read.processing))
    /\ \A t \in 0..(MaxPush - 1) :
          (\E p \in DOMAIN pc :
              pc[p] = "push_overlap" /\ ticket[p] = t /\ ~Overlapping(t, read.processing))
             ~> (write.processing > t)

\* Capacity 1: the second Push was held back while the first item was
\* unread, the Pop returned the first item, and the second Push has published.
C5_Witness ==
    /\ capacity = 1
    /\ Len(popLog) = 1 /\ popLog[1][2] = written[1]
    /\ write.processing = 2
    /\ AllIdle

\* C6: a Push call returns LockedError exactly when it finds the flag set at
\* its entry, and such a call changes neither a counter nor a slot; a Push
\* that passed the entry check returns only by publishing, with success.
C6_PushError ==
    [][ /\ rejected' # rejected =>
             /\ rejected' = rejected + 1
             /\ locked = 1
             /\ UNCHANGED <<qvars, lvars>>
        /\ (Admitted' # Admitted /\ UNCHANGED write) => locked # 1
        /\ \A p \in DOMAIN pc :
             (pc[p] \in PushPcs /\ pc'[p] = "idle") =>
                 /\ pc[p] = "push_done"
                 /\ write'.processing = ticket[p] + 1
      ]_vars

\* A Push has been rejected on a closed queue that earlier accepted a Push.
C6_Witness ==
    /\ rejected = 1
    /\ locked = 1
    /\ write.processing >= 1

\* C7: Close does not discard data.  Close changes nothing but the flag; a
\* Pop that returns on a closed queue returns the oldest published item; the
\* queue is drained only when every published item has been returned, in
\* ticket order; and a Push called on a drained queue is rejected.
C7_CloseKeepsData ==
    /\ [](Drained =>
            /\ Len(popLog) = write.processing
            /\ \A i \in 1..write.processing : popLog[i][2] = written[i])
    /\ [][
           /\ closes' # closes =>
                 (locked' = 1 /\ UNCHANGED <<capacity, items, write, read>>)
           /\ (locked = 1 /\ Len(popLog') > Len(popLog)) =>
                 /\ popLog' = Append(popLog, popLog'[Len(popLog')])
                 /\ popLog'[Len(popLog')][1] = read.processing
                 /\ popLog'[Len(popLog')][2] = written[read.processing + 1]
           /\ (Drained /\ Admitted' + rejected' # Admitted + rejected) =>
                 rejected' = rejected + 1
       ]_vars

\* NewQueue(1): push ok, pop, push ok, close, pop, then drained, push rejected.
C7_Witness ==
    /\ capacity = 1
    /\ AllIdle /\ Drained
    /\ closes = 1 /\ reopens = 0
    /\ Len(popLog) = 2 /\ popLog[1][2] = written[1] /\ popLog[2][2] = written[2]
    /\ written[1][1] = written[2][1]
    /\ rejected = 1

\* C8 as stated: no Pop called after IsDrained() returned true returns an item.
C8_Original ==
    /\ \A i \in 1..Len(popLog) : popLog[i][3] = "no"
    /\ \A p \in DOMAIN pc : late[p] # "no" => pc[p] \notin PopCritical

\* C8 amended: once an IsDrained() call that began after every admitted Push
\* had returned has returned true (Reopen is not called), every later Pop
\* returns nil from its entry check, without taking a ticket.
C8_DrainedStable ==
    /\ \A i \in 1..Len(popLog) : popLog[i][3] # "quiet"
    /\ \A p \in DOMAIN pc :
          late[p] = "quiet" =>
            /\ pc[p] \in {"pop_wp", "pop_rp"}
            /\ Drained
            /\ (pc[p] = "pop_rp" => lw[p] = read.processing)

\* A Pop called after such an IsDrained() call is about to return nil.
C8_Witness ==
    \E p \in DOMAIN pc :
        /\ late[p] = "quiet"
        /\ pc[p] = "pop_rp"
        /\ write.processing >= 1

\* C9: drain termination and accounting.  When the queue is closed after every
\* writer has returned from its pushes, every reader looping on IsDrained and
\* Pop terminates, and then as many Pops returned an item as Pushes succeeded,
\* tag by tag.
C9_DrainAccounting ==
    /\ <>[]TestDone
    /\ [](TestDone =>
            /\ Len(popLog) = write.processing
            /\ write.processing = NumWriters * NumSamples
            /\ \A idx \in Writers : Results(idx) = Pushed(idx) /\ Pushed(idx) = NumSamples)

\* The test has ended with all items counted, one reader having given up a
\* ticket it held when the queue became drained.
C9_Witness ==
    /\ TestDone
    /\ Len(popLog) = NumWriters * NumSamples
    /\ read.next > read.processing

\* C10: on a queue that was never closed no Pop has returned nil, a Pop is
\* past its publish wait only when the Push with its ticket has published,
\* and the item it then holds is that Push's item.
C10_OpenPopNeverEmpty ==
    closes = 0 =>
      /\ EmptyPops = 0
      /\ \A p \in DOMAIN pc :
            /\ pc[p] \in PopCritical => write.processing > ticket[p]
            /\ pc[p] \in {"pop_turn", "pop_done"} =>
                  /\ ticket[p] < Len(written)
                  /\ item[p] = written[ticket[p] + 1]

\* On a never closed queue one Pop has returned an item while another spins
\* on a ticket nothing has been published for.
C10_Witness ==
    /\ closes = 0
    /\ Len(popLog) >= 1
    /\ \E p \in DOMAIN pc : pc[p] = "pop_locked" /\ ticket[p] >= write.processing

\* C14 as stated: Push is wait-free while the queue is not full.  On an open
\* queue a Push whose ticket does not overlap is never held up by another
\* goroutine: its next step can always be taken.
C14_PushWaitFree ==
    \A p \in DOMAIN pc :
        (/\ locked = 0
         /\ pc[p] \in {"push_overlap", "push_store", "push_turn", "push_done"}
         /\ ~Overlapping(ticket[p], read.processing))
            => ENABLED RunStep(p)

\* C17 as stated: resync on abort.  Whenever no Pop call is in progress every
\* issued read ticket has been retired.
C17_ResyncOnAbort ==
    (\A p \in DOMAIN pc : pc[p] \notin PopPcs) => read.next = read.processing

\* C15 as stated: Pop is wait-free while there are items in the queue.  A Pop
\* called while write.processing > read.processing is never held up by
\* another goroutine: it neither has to wait for its ticket to be published
\* nor for the Pop calls holding smaller tickets to retire.
C15_PopWaitFree ==
    \A p \in DOMAIN pc :
        /\ pc[p] = "pop_wait" =>
              \/ ticket[p] < write.processing
              \/ locked = 1 /\ write.processing = read.processing
        /\ pc[p] = "pop_turn" => ticket[p] = read.processing

\* C12: Close does not release a Push held back by a full queue.  While the
\* queue is closed such a Push stays in its overlap wait, whatever step is
\* taken (it neither returns nor stores); a Push is past the wait only when
\* read.processing has advanced far enough; and once it has, the Push goes on
\* to publish its item and return nil although the queue is closed.
C12_CloseKeepsPushBlocked ==
    /\ [][
           \A p \in DOMAIN pc :
              /\ (/\ locked = 1
                  /\ pc[p] = "push_overlap"
                  /\ Overlapping(ticket[p], read.processing))
                    => pc'[p] = "push_overlap"
              /\ (locked = 1 /\ pc[p] = "push_done" /\ pc'[p] = "idle")
                    => (write'.processing = ticket[p] + 1 /\ rejected' = rejected)
       ]_vars
    /\ [](\A p \in DOMAIN pc :
            (locked = 1 /\ pc[p] \in PushCritical) => ~Overlapping(ticket[p], read.processing))
    /\ \A t \in 0..(MaxPush - 1) :
          (\E p \in DOMAIN pc :
              /\ locked = 1
              /\ pc[p] = "push_overlap" /\ ticket[p] = t
              /\ ~Overlapping(t, read.processing))
             ~> (locked = 1 /\ write.processing > t)

\* The queue is closed, a Push is held back by the full queue, and a Pop is
\* about to retire the item that stands in its way.
C12_Witness ==
    /\ locked = 1
    /\ \E p, q \in DOMAIN pc :
          /\ pc[p] = "push_overlap"
          /\ Overlapping(ticket[p], read.processing)
          /\ pc[q] = "pop_done"
          /\ ~Overlapping(ticket[p], read.processing + 1)

\* C13 as stated: the closed check of Push is advisory.  A Push that is past
\* the check when the queue is closed still publishes its item and returns
\* nil while the flag is set (unless the full queue holds it back), and the
\* item is then returned to the consumers: once it is published and a Pop
\* call holding a later read ticket is running, the item is returned.
C13_AdvisoryCheck ==
    /\ [][
           \A p \in DOMAIN pc :
              (locked = 1 /\ pc[p] = "push_done" /\ pc'[p] = "idle")
                 => (write'.processing = ticket[p] + 1 /\ rejected' = rejected)
       ]_vars
    /\ \A t \in 0..(MaxPush - 1) :
          (\E p \in DOMAIN pc :
              /\ locked = 1
              /\ pc[p] \in PushPcs \ {"push_ticket"} /\ ticket[p] = t
              /\ ~Overlapping(t, read.processing))
             ~> (locked = 1 /\ write.processing > t)
    /\ \A t \in 0..(MaxPush - 1) :
          [](
              (\E p \in DOMAIN pc :
                  locked = 1 /\ pc[p] \in PushPcs \ {"push_ticket"} /\ ticket[p] = t)
              => []((/\ write.processing > t
                     /\ \E q \in DOMAIN pc : pc[q] \in PopTicketPcs /\ ticket[q] > t)
                        => <>(Len(popLog) > t))
            )

\* C19 as stated: once the queue is closed and IsEmpty has returned true, the
\* queue stays empty (Reopen is not called).
C19_Original == seen # "no" => Drained

\* C19 amended: once the queue is closed and an IsEmpty call that began after
\* every admitted Push had returned has returned true, the queue stays empty
\* and every later IsEmpty call returns true (Reopen is not called).
C19_EmptyStable ==
    seen = "quiet" =>
      /\ Drained
      /\ \A p \in DOMAIN pc : pc[p] = "isd_rp" => lw[p] = read.processing

\* After such a call returned true a Push was turned away and a further call
\* is about to compare the counters.
C19_Witness ==
    /\ seen = "quiet"
    /\ write.processing >= 1
    /\ rejected >= 1
    /\ \E p \in DOMAIN pc : pc[p] = "isd_rp"

\* C11 as stated: Close unblocks stuck readers.  When Close is called while
\* Pop calls are waiting for data, every one of them returns, also when a
\* Push admitted before the Close is still running.
C11_CloseUnblocksReaders ==
    (locked = 1) ~> (\A r \in BlockedReaders : pc[r] = "idle")

\* C16: Close and Reopen change only the closed flag.  Close sets it and
\* changes nothing at all when it is already set, Reopen clears it, neither
\* touches a counter, a slot or a running call, and no other operation
\* changes the flag; a Push is turned away only when it finds the flag set,
\* so a Push called between a Reopen and the next Close is admitted.
C16_CloseReopenFrame ==
    [][
        /\ closes' # closes =>
              /\ locked' = 1
              /\ UNCHANGED <<capacity, items, write, read, lvars>>
              /\ locked = 1 => UNCHANGED qvars
        /\ reopens' # reopens =>
              /\ locked' = 0
              /\ UNCHANGED <<capacity, items, write, read, lvars>>
        /\ locked' # locked => (closes' # closes \/ reopens' # reopens)
        /\ rejected' # rejected => locked = 1
        /\ \A p \in DOMAIN pc :
              (pc[p] = "idle" /\ pc'[p] = "push_ticket") => locked = 0
    ]_vars

\* Close was called twice in a row, a Push was turned away, Reopen was called,
\* and a Push has just been admitted on the reopened queue, whose counters
\* still stand where the earlier calls left them.
C16_Witness ==
    /\ closes = 2 /\ reopens = 1 /\ locked = 0
    /\ rejected = 1
    /\ read.processing = 1
    /\ \E p \in DOMAIN pc : pc[p] = "push_ticket" /\ write.next = 1

\* C18: the queries are pure.  No step of an IsClosed, IsEmpty or IsDrained
\* call changes a counter, a slot or the flag.  In a sequential run IsClosed
\* returns whether the flag is set, IsEmpty returns write.processing =
\* read.processing, which is whether every pushed item has been popped, and
\* IsDrained returns their conjunction, so false on an open queue.
C18_QueriesPure ==
    /\ [][
           (todo[SeqCaller][1] = "call" /\ todo[SeqCaller][2] \in Queries)
              => UNCHANGED <<qvars, rejected, written, popLog>>
       ]_vars
    /\ [](todo[SeqCaller][1] = "got" =>
            /\ todo[SeqCaller][2] = "IsClosed" => todo[SeqCaller][3] = (locked = 1)
            /\ todo[SeqCaller][2] = "IsEmpty" =>
                  /\ todo[SeqCaller][3] = (write.processing = read.processing)
                  /\ todo[SeqCaller][3] = (Len(written) = Len(popLog))
            /\ todo[SeqCaller][2] = "IsDrained" =>
                  /\ todo[SeqCaller][3] = (locked = 1 /\ write.processing = read.processing)
                  /\ locked = 0 => todo[SeqCaller][3] = FALSE)

\* A Push succeeded, the matching Pop returned its item and IsEmpty has just
\* returned true on the open queue.
C18_Witness ==
    /\ todo[SeqCaller] = <<"got", "IsEmpty", TRUE>>
    /\ locked = 0
    /\ Len(popLog) = 1
    /\ write.processing = 1

\* C20 as stated: FetchAndReset(keys...) returns, for every given key that is
\* a registered metric, the value the metric had before the call and nothing
\* else, sets those metrics to 0, creates nothing, and leaves every other
\* metric as it was.
C20_FetchAndReset ==
    [][
        \A p \in DOMAIN mcall :
           (mcall[p].pc = "idle" /\ mcall'[p].pc = "far_rates") =>
              LET given == {mcall'[p].keys[i] : i \in 1..Len(mcall'[p].keys)}
                  state == mcall'[p].state
              IN  /\ DOMAIN state = given \cap DOMAIN store
                  /\ \A k \in DOMAIN state : state[k] = store[k]
                  /\ DOMAIN store' = DOMAIN store
                  /\ \A k \in DOMAIN store :
                        store'[k] = IF k \in given THEN 0 ELSE store[k]
    ]_vars

\* C21 as stated: NewRate(baseMetric, name, ...) returns an error and registers
\* nothing when baseMetric is not a registered metric or a rate called name is
\* already registered; otherwise it registers the rate under name, based on
\* baseMetric, and returns nil.
C21_NewRate ==
    [][
        \A p \in DOMAIN mcall :
           (mcall'[p] # mcall[p] /\ mcall'[p].op = "NewRate" /\ mcall'[p].pc = "idle") =>
              LET baseMetric == mcall'[p].keys[1]
                  name == mcall'[p].keys[2]
              IN  IF baseMetric \notin DOMAIN store \/ name \in DOMAIN rates
                    THEN mcall'[p].err /\ rates' = rates
                    ELSE /\ ~mcall'[p].err
                         /\ DOMAIN rates' = DOMAIN rates \cup {name}
                         /\ rates'[name].metric = baseMetric
                         /\ \A n \in DOMAIN rates : rates'[n] = rates[n]
    ]_vars

\* C22 as stated: ResetMetrics sets every registered non-system metric to 0
\* and leaves the value of every system metric (ProcessStart, GoRoutines,
\* GoVersion, GoMemoryAllocated, GoMemoryNumObjects, GoMemoryGCEnabled)
\* unchanged.
C22_ResetMetrics ==
    [][
        \A p \in DOMAIN mcall :
           (mcall[p].pc \in {"idle", "rm_lock"} /\ mcall'[p].pc = "rm_rates") =>
              /\ DOMAIN store' = DOMAIN store
              /\ \A key \in DOMAIN store :
                    store'[key] = IF key \in SystemMetrics THEN store[key] ELSE 0
    ]_vars

\* The mean of the samples of every group when the samples are divided into
\* the given number of groups of consecutive samples.
C23_GroupMeans(samples, groups) ==
    LET len == Cardinality(DOMAIN samples)
        members(g) == {i \in DOMAIN samples : (i * groups) \div len = g}
        first(g) == CHOOSE i \in members(g) : \A j \in members(g) : i <= j
    IN  [g \in 0..(groups - 1) |->
            Quotient(Total([i \in members(g) |-> samples[i]], first(g)),
                     Cardinality(members(g)))]

\* The rate value the documentation of NewRate describes.
C23_Documented(samples, numMedianSamples) ==
    IF numMedianSamples = 0 THEN MeanOfAll(samples)
    ELSE IF numMedianSamples = 1 \/ numMedianSamples >= Cardinality(DOMAIN samples)
      THEN MedianOfAll(samples)
      ELSE MedianOfAll(C23_GroupMeans(samples, numMedianSamples))

\* C23 as stated: the value updateRates gives a rate follows the NewRate
\* documentation.  With numMedianSamples = 0 it is the mean of all stored
\* samples, with numMedianSamples = 1 or >= numSamples the median of all
\* stored samples, with any other value the median of the means of
\* numMedianSamples groups of samples.  So when a NewRate call for a
\* registered metric has returned and updateRates runs, the sampler does not
\* panic and the rate of that name has the documented value afterwards.
C23_RateValue ==
    [][
        (mcall[Sampler].pc = "ur_rates" /\ mcall'[Sampler].pc # "ur_rates") =>
           \A p \in DOMAIN mcall :
              (/\ mcall[p].op = "NewRate" /\ mcall[p].pc = "idle"
               /\ mcall[p].keys[1] \in DOMAIN store) =>
                 LET name == mcall[p].keys[2]
                 IN  /\ mcall'[Sampler].pc # "panic"
                     /\ name \in DOMAIN rates'
                     /\ rates'[name].value =
                           C23_Documented(rates'[name].samples, rates'[name].numMedians)
    ]_vars

\* The sum of the deltas goroutine p has applied to foo: those of its Add
\* calls that returned and that of a running call past its atomic add.
C24_Applied(p) ==
    IF todo[p][1] \in {"add", "added"}
      THEN Total(todo[p][3], 1)
           + (IF mcall[p].pc = "add_runlock" THEN mcall[p].value ELSE 0)
      ELSE 0

\* The sum of the values of foo goroutine p has fetched: those in the maps
\* its FetchAndReset calls returned and that of a running call which has
\* read foo and reset it.
C24_Fetched(p) ==
    IF todo[p][1] \in {"fetch", "fetched"}
      THEN Total([k \in 1..Len(todo[p][3]) |->
                     IF "foo" \in DOMAIN todo[p][3][k] THEN todo[p][3][k]["foo"] ELSE 0], 1)
           + (IF /\ mcall[p].pc \in {"far_key", "far_unlock", "far_rates"}
                 /\ "foo" \in DOMAIN mcall[p].state
                THEN mcall[p].state["foo"] ELSE 0)
      ELSE 0

\* C24 as stated: no update is lost.  For any interleaving of concurrent Inc,
\* Dec and Add calls and FetchAndReset calls on one registered metric, once
\* all calls have returned the values the FetchAndReset calls returned plus
\* the final value of the metric add up to the sum of all deltas.
C24_NoLostUpdate ==
    (\A p \in Threads : mcall[p].pc = "idle") =>
       Total([p \in Threads |-> C24_Fetched(p)], 1) + store["foo"]
          = Total([p \in Threads |-> C24_Applied(p)], 1)

\* C25: counter ordering.  In every reachable state read.processing <=
\* write.processing <= write.next and read.processing <= read.next, and every
\* step leaves each counter as it is or increases it by exactly 1.
C25_CounterOrder ==
    /\ [](/\ read.processing <= write.processing
          /\ write.processing <= write.next
          /\ read.processing <= read.next)
    /\ [][ /\ write'.next \in {write.next, write.next + 1}
           /\ write'.processing \in {write.processing, write.processing + 1}
           /\ read'.next \in {read.next, read.next + 1}
           /\ read'.processing \in {read.processing, read.processing + 1}
       ]_vars

\* An item is published and unread, a further Push is running and a Pop
\* holds a ticket.
C25_Witness ==
    /\ read.processing < write.processing
    /\ write.processing < write.next
    /\ read.processing < read.next

\* C26: in-order retirement.  On each side processing is advanced only by
\* the call holding the ticket equal to processing, which returns with that
\* step, so a Push (Pop) with ticket t returns with success (an item) only
\* when every smaller ticket has been retired; tickets are retired in the
\* order they were issued.
C26_InOrderRetirement ==
    /\ [][ /\ write'.processing # write.processing =>
                 \E p \in DOMAIN pc :
                     /\ pc[p] = "push_done" /\ pc'[p] = "idle"
                     /\ ticket[p] = write.processing
           /\ read'.processing # read.processing =>
                 \E p \in DOMAIN pc :
                     /\ pc[p] = "pop_done" /\ pc'[p] = "idle"
                     /\ ticket[p] = read.processing
                     /\ popLog' = Append(popLog, <<ticket[p], item[p], late[p]>>)
           /\ \A p \in DOMAIN pc :
                 /\ (pc[p] \in PushPcs /\ pc'[p] = "idle") =>
                       (write.processing = ticket[p] /\ write'.processing = ticket[p] + 1)
                 /\ (pc[p] \in PopCritical /\ pc'[p] = "idle") =>
                       (read.processing = ticket[p] /\ read'.processing = ticket[p] + 1)
       ]_vars
    /\ [](\A p \in DOMAIN pc :
            /\ pc[p] = "push_done" => ticket[p] = write.processing
            /\ pc[p] = "pop_done" => ticket[p] = read.processing)

\* The Push holding ticket 1 has stored its item and waits for its turn
\* while the Push holding ticket 0 has not stored its item yet.
C26_Witness ==
    \E p, q \in DOMAIN pc :
        /\ pc[p] = "push_turn" /\ ticket[p] = 1
        /\ pc[q] \in {"push_overlap", "push_store"} /\ ticket[q] = 0

\* A call holds a write ticket, a read ticket.
C27_HoldsWrite(p) == pc[p] \in PushPcs \ {"push_ticket"}
C27_HoldsRead(p) == pc[p] \in PopTicketPcs

\* C27: ticket uniqueness.  No two Push calls hold the same write ticket and
\* no two Pop calls the same read ticket; a ticket is issued by one step that
\* hands out the value of next and adds 1 to it, so the tickets issued on a
\* side are 0, 1, 2, ... without gaps; and the slot of a call is its ticket
\* mod capacity.
C27_TicketUnique ==
    /\ [](\A p, q \in DOMAIN pc :
            p # q =>
              /\ (C27_HoldsWrite(p) /\ C27_HoldsWrite(q)) => ticket[p] # ticket[q]
              /\ (C27_HoldsRead(p) /\ C27_HoldsRead(q)) => ticket[p] # ticket[q])
    /\ [](\A p \in DOMAIN pc :
            /\ C27_HoldsWrite(p) =>
                  /\ write.processing <= ticket[p] /\ ticket[p] < write.next
                  /\ slot[p] = ticket[p] % capacity
            /\ C27_HoldsRead(p) =>
                  /\ read.processing <= ticket[p] /\ ticket[p] < read.next
                  /\ slot[p] = ticket[p] % capacity)
    /\ [](\A t \in write.processing..(write.next - 1) :
            \E p \in DOMAIN pc : C27_HoldsWrite(p) /\ ticket[p] = t)
    /\ [][ \A p \in DOMAIN pc :
             /\ (~C27_HoldsWrite(p) /\ C27_HoldsWrite(p)') =>
                   (ticket'[p] = write.next /\ write'.next = write.next + 1)
             /\ (~C27_HoldsRead(p) /\ C27_HoldsRead(p)') =>
                   (ticket'[p] = read.next /\ read'.next = read.next + 1)
       ]_vars
    /\ [][ /\ write'.next # write.next =>
                 \E p \in DOMAIN pc : ~C27_HoldsWrite(p) /\ C27_HoldsWrite(p)'
           /\ read'.next # read.next =>
                 \E p \in DOMAIN pc : ~C27_HoldsRead(p) /\ C27_HoldsRead(p)'
       ]_vars

\* Capacity 1: two Push calls hold the tickets 0 and 1, which share slot 0,
\* and a Pop call holds the read ticket 1 issued after ticket 0.
C27_Witness ==
    /\ capacity = 1
    /\ \E p, q, r \in DOMAIN pc :
          /\ C27_HoldsWrite(p) /\ ticket[p] = 0 /\ slot[p] = 0
          /\ C27_HoldsWrite(q) /\ ticket[q] = 1 /\ slot[q] = 0
          /\ C27_HoldsRead(r) /\ ticket[r] = 1 /\ slot[r] = 0

\* C28: a Push stores its item into slot (ticket mod capacity) only in a
\* state where ticket - read.processing < capacity, so no slot is overwritten
\* before the Pop holding the read ticket of its previous occupant (ticket -
\* capacity) has loaded that item and advanced read.processing.
C28_NoOverwrite ==
    [][ items' # items =>
          \E p \in DOMAIN pc :
              /\ pc[p] = "push_store"
              /\ ~Overlapping(ticket[p], read.processing)
              /\ items' = [items EXCEPT ![ticket[p] % capacity] = item[p]]
              /\ items[ticket[p] % capacity] # Nil =>
                    /\ ticket[p] >= capacity
                    /\ read.processing > ticket[p] - capacity
                    /\ Len(popLog) > ticket[p] - capacity
                    /\ popLog[ticket[p] - capacity + 1][1] = ticket[p] - capacity
                    /\ popLog[ticket[p] - capacity + 1][2] = items[ticket[p] % capacity]
    ]_vars

\* Capacity 1: the Pop holding read ticket 0 has returned the first item and
\* the Push holding write ticket 1 has stored the second item over it.
C28_Witness ==
    /\ capacity = 1
    /\ Len(written) = 2
    /\ Len(popLog) = 1 /\ popLog[1][2] = written[1]
    /\ items[0] = written[2]
    /\ \E p \in DOMAIN pc : pc[p] = "push_turn" /\ ticket[p] = 1

\* C29: publish after write.  In every reachable state, for every ticket t
\* with read.processing <= t < write.processing, slot (t mod capacity) holds
\* the item passed to the Push that acquired write ticket t.
C29_PublishAfterWrite ==
    \A t \in read.processing..(write.processing - 1) :
        items[t % capacity] = written[t + 1]

\* Two items are published and unretired and a Pop is about to load the
\* first.
C29_Witness ==
    /\ capacity = 2
    /\ write.processing - read.processing = 2
    /\ \E p \in DOMAIN pc : pc[p] = "pop_load" /\ ticket[p] = read.processing

\* C30: a Pop that finds the queue drained at its entry (the flag set, and
\* the write.processing it loads equal to read.processing) returns nil at
\* once: none of its steps changes a counter, a slot or the flag, and a read
\* ticket is acquired only by a Pop whose entry check did not find the queue
\* drained.
C30_DrainedPopFrame ==
    [][ \A p \in DOMAIN pc :
          /\ (pc[p] = "idle" /\ pc'[p] \in PopPcs) =>
                /\ pc'[p] = IF locked = 1 THEN "pop_wp" ELSE "pop_ticket"
                /\ UNCHANGED qvars
          /\ (pc[p] = "pop_wp" /\ pc'[p] # "pop_wp") =>
                /\ pc'[p] = "pop_rp" /\ lw'[p] = write.processing
                /\ UNCHANGED qvars
          /\ (pc[p] = "pop_rp" /\ pc'[p] # "pop_rp") =>
                /\ UNCHANGED <<qvars, popLog>>
                /\ pc'[p] = IF lw[p] = read.processing THEN "idle" ELSE "pop_ticket"
          /\ (~C27_HoldsRead(p) /\ C27_HoldsRead(p)') =>
                /\ pc[p] = "pop_ticket"
                /\ read'.next = read.next + 1
    ]_vars

\* The queue was closed and drained with every read ticket retired, and a
\* Pop called then has returned nil: no read ticket was issued for it.
C30_Witness ==
    /\ AllIdle /\ Drained
    /\ write.processing >= 1
    /\ read.next = read.processing
    /\ EmptyPops >= 1

\* C31 as stated: the queue is reusable after Reopen.  Once the queue was
\* closed, a Pop returned nil, the queue is drained and reopened, the k Push
\* and k Pop calls made afterwards all return, the Pops returning the k
\* pushed items in push order.
C31_ReusableAfterReopen ==
    Reused ~>
       (/\ Reused /\ AllIdle
        /\ write.processing = ReuseBase + ReuseCalls
        /\ Len(popLog) = ReuseBase + ReuseCalls
        /\ \A i \in (ReuseBase + 1)..(ReuseBase + ReuseCalls) : popLog[i][2] = written[i])

\* Every consumer has left its loop: IsDrained() returned true to it.
ConsumersDone == \A r \in BlockedReaders : todo[r][1] = "done"

\* C32 as stated: eventual delivery without Reopen.  With consumers calling
\* Pop until IsDrained() is true, every call of a consumer returns, and an
\* item whose Push returned nil is returned by some Pop (at the latest when
\* the last consumer leaves its loop: the claim has no such exception, so
\* it asks for more than this formula).
C32_EventualDelivery ==
    /\ \A t \in 0..(NumSamples - 1) :
          (write.processing > t)
             ~> \/ /\ Len(written) > t
                   /\ \E i \in 1..Len(popLog) : popLog[i][2] = written[t + 1]
                \/ ConsumersDone
    /\ \A r \in BlockedReaders : (pc[r] # "idle") ~> (pc[r] = "idle")

\* C33 as stated: Pop reports empty only for a really drained queue.  A Pop
\* whose drained check is about to return nil (the loaded write.processing
\* equals read.processing) has seen, at some instant since it was called,
\* the closed flag set together with write.processing = read.processing.
C33_EmptyOnlyWhenDrained ==
    \A p \in DOMAIN wasDrained :
        (pc[p] \in {"pop_rp", "pop_srp"} /\ lw[p] = read.processing) => wasDrained[p]

\* C34: deadlock freedom on an open queue.  When the queue is never closed
\* and as many Pop calls as Push calls are made, some goroutine can move on
\* in every state in which a call is still to be made or to return, and
\* under fair scheduling every call returns, the Pops with the pushed items.
C34_DeadlockFree ==
    /\ [](~OpenDone => \E p \in Threads : CanAdvance(p))
    /\ <>[]OpenDone
    /\ \A p \in Threads : (pc[p] # "idle") ~> (pc[p] = "idle")

\* The queue is full and empty at once as far as the waiting calls can tell:
\* a Push is held back by the unread slot while a Pop waits for the first
\* item to be published.
C34_Witness ==
    /\ locked = 0
    /\ \E p, q \in Threads :
          /\ pc[p] = "push_overlap" /\ Overlapping(ticket[p], read.processing)
          /\ pc[q] \in {"pop_wait", "pop_locked"} /\ ticket[q] >= write.processing

====
